---- MODULE Spec2Model ----
(***************************************************************************)
(* Model of the lead pipeline of brio-lead-scraper: the DNC registry, the  *)
(* lead pool, lead validation, the scraping jobs with their same-job      *)
(* dedup pass, the local lead store, the bulk email-extraction job and    *)
(* the email cleaning, extraction and scoring steps and the crawl of a     *)
(* website.                                                                *)
(*                                                                         *)
(* Strings whose characters matter (phones, e-mail matches) are sequences  *)
(* of one-character strings; JavaScript's null/undefined is NULL.  Each    *)
(* persisted JSON document is one variable holding the document's content, *)
(* read whole and written whole by every handler.  The lead-manager module *)
(* and the server each read and write a DNC document and a pool document   *)
(* with the same code; the model keeps one document of each kind, written  *)
(* by the operations of both.                                              *)
(*                                                                         *)
(* Left out, as nothing modelled reads them: the pool's stats counters,    *)
(* the postal-code progress file, the event log, and the fields of leads,  *)
(* campaigns and jobs that only carry dates, ratings or display names.     *)
(***************************************************************************)
EXTENDS Integers, Sequences, FiniteSets, TLC

VARIABLES
    dnc,        \* dnc-list.json: the phones mapping, key -> entry
    pool,       \* leads-pool.json: the phones mapping, key -> entry
    now,        \* the wall clock read by new Date() / Date.now()
    req,        \* the pending call, [kind, arg] (kind "none": no call)
    resp,       \* what the last operation returned to its caller
    store,      \* local-leads.json: [leads, campaigns]
    job,        \* the scraping job of scrapingJobs (one at a time)
    ejob,       \* the email extraction job, with the document it loaded
    crawl       \* the crawl of one website by crawlWebsite

vars == <<dnc, pool, now, req, resp, store, job, ejob, crawl>>

----------------------------------------------------------------------------
(* Bounds of the model *)

\* the clock takes the values 0..MaxClock
MaxClock == 1
\* leads in one validation or track request
MaxBatch == 2
\* phones put in the registry and in the pool before a validation
MaxFill == 2
\* locations (neighborhoods or postal codes) of one scraping job
MaxNeighborhoods == 2
\* categories searched per location by a broad job: the model searches the
\* first MaxCategories entries of categoriesToSearch
MaxCategories == 2
\* businesses returned by one search
MaxResults == 2
\* leads collected by one scraping job
MaxJobLeads == 2
\* failed searches of one scraping job
MaxErrors == 1
\* leads in local-leads.json: a job goes on only while its leads fit
MaxStore == 3
\* lead ids of one bulk email extraction
MaxIds == 2
\* candidates given to one scoring
MaxEmails == 3
\* crawls of one behaviour
MaxCrawls == 2

----------------------------------------------------------------------------
(* Strings *)

NULL == <<"null">>

Digits == {"0", "1", "2", "3", "4", "5", "6", "7", "8", "9"}

\* JavaScript truthiness of a string-or-null value
Truthy(v) == v /= NULL /\ v /= <<>>

D514 == <<"5", "1", "4">>
D555 == <<"5", "5", "5">>
D0001 == <<"0", "0", "0", "1">>
D0002 == <<"0", "0", "0", "2">>

\* "514-555-0001"
PhoneDashedA == D514 \o <<"-">> \o D555 \o <<"-">> \o D0001
\* "5145550001"
PhonePlainA == D514 \o D555 \o D0001
\* "+1 514-555-0001"
PhonePlusA == <<"+", "1", " ">> \o PhoneDashedA
\* "514-555-0002"
PhoneB == D514 \o <<"-">> \o D555 \o <<"-">> \o D0002
\* "555-0001": seven digits
PhoneShort == D555 \o <<"-">> \o D0001
\* "n/a": no digit at all
PhoneNoDigit == <<"n", "/", "a">>

\* the 10-digit keys of the phones above
KeyA == D514 \o D555 \o D0001
KeyB == D514 \o D555 \o D0002

\* String.prototype.replace(/\D/g, '')
StripNonDigits(s) == SelectSeq(s, LAMBDA c : c \in Digits)

\* the number of digits kept by slice(-10)
KeyLen == 10

\* String.prototype.slice(-n)
SliceLast(s, n) == IF Len(s) <= n THEN s ELSE SubSeq(s, Len(s) - n + 1, Len(s))

\* DNC.normalizePhone of the lead manager
DNC_normalizePhone(phone) ==
    IF ~Truthy(phone) THEN NULL ELSE SliceLast(StripNonDigits(phone), KeyLen)

\* normalizePhone of the server
normalizePhone(phone) ==
    IF ~Truthy(phone) THEN NULL ELSE SliceLast(StripNonDigits(phone), KeyLen)

\* values of a JSON body that are no strings: the number 5145550001, true
NumberA == <<"number 5145550001">>
BoolTrue == <<"true">>
NonStrings == {NumberA, BoolTrue}

\* phone.replace throws a TypeError: the value is truthy and has no replace
ReplaceThrows(phone) == Truthy(phone) /\ phone \in NonStrings

\* a call of DNC.normalizePhone: whether it threw, and what it returned
DNC_normalizePhoneCall(phone) ==
    [op |-> "DNC.normalizePhone", threw |-> ReplaceThrows(phone),
     value |-> IF ReplaceThrows(phone) THEN NULL ELSE DNC_normalizePhone(phone)]

\* a call of normalizePhone: whether it threw, and what it returned
normalizePhoneCall(phone) ==
    [op |-> "normalizePhone", threw |-> ReplaceThrows(phone),
     value |-> IF ReplaceThrows(phone) THEN NULL ELSE normalizePhone(phone)]

\* the pending value is given to DNC.normalizePhone
DNC_Normalize ==
    /\ req.kind = "normalize"
    /\ resp' = DNC_normalizePhoneCall(req.arg)
    /\ UNCHANGED <<dnc, pool, now, req, store, job, ejob, crawl>>

\* the pending value is given to normalizePhone
Normalize ==
    /\ req.kind = "normalize"
    /\ resp' = normalizePhoneCall(req.arg)
    /\ UNCHANGED <<dnc, pool, now, req, store, job, ejob, crawl>>

----------------------------------------------------------------------------
(* JSON objects used as mappings *)

EmptyMap == [k \in {} |-> NULL]

Has(m, k) == k \in DOMAIN m

Put(m, k, v) == [x \in (DOMAIN m) \cup {k} |-> IF x = k THEN v ELSE m[x]]

Delete(m, k) == [x \in (DOMAIN m) \ {k} |-> m[x]]

----------------------------------------------------------------------------
(* The clock *)

Tick ==
    /\ now < MaxClock
    /\ now' = now + 1
    /\ UNCHANGED <<dnc, pool, req, resp, store, job, ejob, crawl>>

----------------------------------------------------------------------------
(* DNC registry *)

\* phones given to the operations that look a phone up
PhoneInputs ==
    {PhoneDashedA, PhonePlainA, PhonePlusA, PhoneB, PhoneShort, PhoneNoDigit,
     <<>>, NULL}

\* phones given to the operations that store a phone
AddInputs == {PhoneDashedA, PhoneB, PhoneShort, PhoneNoDigit, <<>>, NULL}

Reasons == {"Not interested", "Manual add"}

\* (reason, source) pairs given to DNC.add: its defaults, and a caller's own
AddArgs == {<<"Not interested", "manual">>, <<"Manual add", "import">>}

\* phones given to the call-outcome route
OutcomeInputs == {PhoneDashedA, PhoneShort, PhoneNoDigit, NULL}

DNCEntry(phone, reason, source, t) ==
    [originalPhone |-> phone, reason |-> reason, source |-> source, addedAt |-> t]

\* DNC.isBlocked changed so that only the phone as it was written when added
\* is found
DNC_isBlockedAsWritten(phones, phone) ==
    LET normalized == DNC_normalizePhone(phone)
    IN  IF Truthy(normalized)
        THEN Has(phones, normalized) /\ phones[normalized].originalPhone = phone
        ELSE FALSE

\* DNC.isBlocked, on the loaded document
DNC_isBlocked(phones, phone) ==
    LET normalized == DNC_normalizePhone(phone)
    IN  IF Truthy(normalized) THEN Has(phones, normalized) ELSE FALSE

\* DNC.add changed so that an entry already present is kept
DNC_addPhonesFirstWins(phones, phone, reason, source, t) ==
    LET normalized == DNC_normalizePhone(phone)
    IN  IF Truthy(normalized) /\ ~Has(phones, normalized)
        THEN Put(phones, normalized, DNCEntry(phone, reason, source, t))
        ELSE phones

\* the document DNC.add saves (the loaded one when nothing is saved)
DNC_addPhones(phones, phone, reason, source, t) ==
    LET normalized == DNC_normalizePhone(phone)
    IN  IF Truthy(normalized)
        THEN Put(phones, normalized, DNCEntry(phone, reason, source, t))
        ELSE phones

DNC_add(phone, reason, source) ==
    /\ dnc' = DNC_addPhones(dnc, phone, reason, source, now)
    /\ resp' = [op |-> "DNC.add", ok |-> Truthy(DNC_normalizePhone(phone))]
    /\ UNCHANGED <<pool, now, req, store, job, ejob, crawl>>

DNC_remove(phone) ==
    LET normalized == DNC_normalizePhone(phone)
        found == Truthy(normalized) /\ Has(dnc, normalized)
    IN  /\ dnc' = IF found THEN Delete(dnc, normalized) ELSE dnc
        /\ resp' = [op |-> "DNC.remove", ok |-> found]
        /\ UNCHANGED <<pool, now, req, store, job, ejob, crawl>>

DNC_check(phone) ==
    /\ resp' = [op |-> "DNC.isBlocked", ok |-> DNC_isBlocked(dnc, phone)]
    /\ UNCHANGED <<dnc, pool, now, req, store, job, ejob, crawl>>

\* POST /api/dnc/add: source is always 'manual'; ok is FALSE for the 400 answer
DncAddPhones(phones, phone, reason, t) ==
    LET normalized == normalizePhone(phone)
    IN  IF ~Truthy(normalized)
        THEN phones
        ELSE Put(phones, normalized, DNCEntry(phone, reason, "manual", t))

DncAddRoute(phone, reason) ==
    /\ dnc' = DncAddPhones(dnc, phone, reason, now)
    /\ resp' = [op |-> "POST /api/dnc/add", ok |-> Truthy(normalizePhone(phone))]
    /\ UNCHANGED <<pool, now, req, store, job, ejob, crawl>>

\* POST /api/dnc/check
DncCheckRoute(phone) ==
    LET normalized == normalizePhone(phone)
        blocked == IF Truthy(normalized) THEN Has(dnc, normalized) ELSE FALSE
    IN  /\ resp' = [op |-> "POST /api/dnc/check", ok |-> blocked]
        /\ UNCHANGED <<dnc, pool, now, req, store, job, ejob, crawl>>

\* DELETE /api/dnc/:phone: ok is FALSE for the 404 answer
DncDeleteRoute(phone) ==
    LET normalized == normalizePhone(phone)
        found == Truthy(normalized) /\ Has(dnc, normalized)
    IN  /\ dnc' = IF found THEN Delete(dnc, normalized) ELSE dnc
        /\ resp' = [op |-> "DELETE /api/dnc/:phone", ok |-> found]
        /\ UNCHANGED <<pool, now, req, store, job, ejob, crawl>>

\* POST /api/leads/outcome: outcomeActions, an unknown outcome answers 400
Outcomes ==
    {"interested", "not_interested", "no_answer", "voicemail", "wrong_number",
     "callback", "busy"}

OutcomeKnown(outcome) ==
    outcome \in {"interested", "not_interested", "no_answer", "voicemail",
                 "wrong_number", "callback"}

OutcomeAddToDnc(outcome) == outcome \in {"not_interested", "wrong_number"}

OutcomeDncReason(outcome) ==
    IF outcome = "not_interested" THEN "Customer declined" ELSE "Wrong/invalid number"

LeadsOutcomePhones(phones, phone, outcome, t) ==
    LET normalized == normalizePhone(phone)
    IN  IF OutcomeKnown(outcome) /\ OutcomeAddToDnc(outcome) /\ Truthy(phone)
           /\ Truthy(normalized)
        THEN Put(phones, normalized,
                 DNCEntry(phone, OutcomeDncReason(outcome), "call_outcome", t))
        ELSE phones

\* ok is addedToDnc of the answer (FALSE also for the 400 answer)
LeadsOutcomeRoute(phone, outcome) ==
    /\ dnc' = LeadsOutcomePhones(dnc, phone, outcome, now)
    /\ resp' = [op |-> "POST /api/leads/outcome",
                ok |-> OutcomeKnown(outcome) /\ OutcomeAddToDnc(outcome)]
    /\ UNCHANGED <<pool, now, req, store, job, ejob, crawl>>

----------------------------------------------------------------------------
(* Leads *)

Lead(id, name, phone, address, website) ==
    [id |-> id, name |-> name, phone |-> phone, address |-> address,
     website |-> website]

StreetX == <<"1", " ", "x">>
StreetY == <<"2", " ", "y">>
SiteAcme == <<"a", "c", "m", "e", ".", "c", "o", "m">>

LeadA == Lead("p1", <<"A">>, PhoneDashedA, StreetX, SiteAcme)
\* the number of LeadA, written without punctuation
LeadA2 == Lead("p2", <<"B">>, PhonePlainA, StreetY, NULL)
\* the number of LeadA, written with the country code
LeadA3 == Lead("p3", <<"C">>, PhonePlusA, StreetY, NULL)
LeadB == Lead("p4", <<"D">>, PhoneB, StreetY, SiteAcme)
\* the name and address of LeadB but for the case, under another number
LeadB2 == Lead("p8", <<"d">>, PhonePlainA, StreetY, NULL)
LeadShort == Lead("p5", <<"E">>, PhoneShort, StreetX, NULL)
LeadNoPhone == Lead("p6", <<"F">>, NULL, StreetX, NULL)
LeadNoName == Lead("p7", NULL, PhoneB, StreetX, NULL)

\* the sequences over S of length at most n
SeqUpTo(S, n) == UNION {[1..k -> S] : k \in 0..n}

----------------------------------------------------------------------------
(* Lead pool *)

PoolEntry(leadId, campaign, t) ==
    [leadId |-> leadId, campaign |-> campaign, firstSeenAt |-> t]

\* LeadPool.exists, on the loaded document
LeadPool_exists(phones, phone) ==
    LET normalized == DNC_normalizePhone(phone)
    IN  IF Truthy(normalized) THEN Has(phones, normalized) ELSE FALSE

\* the document LeadPool.track saves (the loaded one when nothing is saved)
LeadPool_trackPhones(phones, phone, leadId, campaign, t) ==
    LET normalized == DNC_normalizePhone(phone)
    IN  IF Truthy(normalized)
        THEN Put(phones, normalized, PoolEntry(leadId, campaign, t))
        ELSE phones

LeadPool_track(phone, leadId, campaign) ==
    /\ resp' = [op |-> "LeadPool.track", ok |-> TRUE]
    /\ pool' = LeadPool_trackPhones(pool, phone, leadId, campaign, now)
    /\ UNCHANGED <<dnc, now, req, store, job, ejob, crawl>>

LeadPool_check(phone) ==
    /\ resp' = [op |-> "LeadPool.exists", ok |-> LeadPool_exists(pool, phone)]
    /\ UNCHANGED <<dnc, pool, now, req, store, job, ejob, crawl>>

\* POST /api/leads/track: the loop over the leads of the request
RECURSIVE LeadsTrackPhones(_, _, _, _)
LeadsTrackPhones(phones, leads, campaign, t) ==
    IF leads = <<>>
    THEN phones
    ELSE LET lead == Head(leads)
             normalized == normalizePhone(lead.phone)
             tracked == Truthy(lead.phone) /\ Truthy(normalized)
                        /\ ~Has(phones, normalized)
         IN  LeadsTrackPhones(
                 IF tracked
                 THEN Put(phones, normalized, PoolEntry(lead.id, campaign, t))
                 ELSE phones,
                 Tail(leads), campaign, t)

LeadsTrackRoute(leads, campaign) ==
    /\ resp' = [op |-> "POST /api/leads/track", ok |-> TRUE]
    /\ pool' = LeadsTrackPhones(pool, leads, campaign, now)
    /\ UNCHANGED <<dnc, now, req, store, job, ejob, crawl>>

----------------------------------------------------------------------------
(* Lead validation *)

\* LeadValidator.validate: the errors, in the order they are pushed
LeadValidator_errors(dncPhones, lead) ==
    (IF ~Truthy(lead.name) THEN <<"Missing company name">> ELSE <<>>)
    \o (IF ~Truthy(lead.phone) THEN <<"Missing phone number">> ELSE <<>>)
    \o (IF Truthy(lead.phone) /\ DNC_isBlocked(dncPhones, lead.phone)
        THEN <<"Phone is on DNC list">> ELSE <<>>)
    \o (IF Truthy(lead.phone)
           /\ (~Truthy(DNC_normalizePhone(lead.phone))
               \/ Len(DNC_normalizePhone(lead.phone)) < KeyLen)
        THEN <<"Invalid phone number format">> ELSE <<>>)

\* LeadValidator.validate: the warnings
LeadValidator_warnings(poolPhones, lead) ==
    IF Truthy(lead.phone) /\ LeadPool_exists(poolPhones, lead.phone)
    THEN <<"Phone already exists in system">> ELSE <<>>

LeadValidator_validate(dncPhones, poolPhones, lead) ==
    [valid |-> LeadValidator_errors(dncPhones, lead) = <<>>,
     errors |-> LeadValidator_errors(dncPhones, lead),
     warnings |-> LeadValidator_warnings(poolPhones, lead)]

\* the bucket LeadValidator.filterBatch pushes a lead to
LeadValidator_bucket(dncPhones, poolPhones, lead) ==
    LET result == LeadValidator_validate(dncPhones, poolPhones, lead)
    IN  IF ~result.valid THEN "invalid"
        ELSE IF \E i \in 1..Len(result.warnings) :
                    result.warnings[i] = "Phone already exists in system"
             THEN "duplicates"
             ELSE "valid"

\* the leads of a batch that go to one bucket, in batch order
\* (buckets[i] is the bucket of leads[i])
InBucket(leads, buckets, name) ==
    LET idx == {i \in 1..Len(leads) : buckets[i] = name}
        RECURSIVE Pick(_)
        Pick(i) == IF i > Len(leads) THEN <<>>
                   ELSE (IF i \in idx THEN <<leads[i]>> ELSE <<>>) \o Pick(i + 1)
    IN  Pick(1)

LeadValidator_filterBatch(dncPhones, poolPhones, leads) ==
    LET B == [i \in 1..Len(leads) |->
                LeadValidator_bucket(dncPhones, poolPhones, leads[i])]
        invalid == InBucket(leads, B, "invalid")
    IN  [op |-> "filterBatch",
         leads |-> leads,
         valid |-> InBucket(leads, B, "valid"),
         invalid |-> [i \in 1..Len(invalid) |->
                        [lead |-> invalid[i],
                         errors |-> LeadValidator_errors(dncPhones, invalid[i])]],
         duplicates |-> InBucket(leads, B, "duplicates")]

\* the pending batch is given to LeadValidator.filterBatch
FilterBatch ==
    /\ req.kind = "validate"
    /\ resp' = LeadValidator_filterBatch(dnc, pool, req.arg)
    /\ UNCHANGED <<dnc, pool, now, req, store, job, ejob, crawl>>

\* the route's checks with the pool looked up before the registry
LeadsValidateBucketPoolFirst(dncPhones, poolPhones, lead) ==
    LET normalized == normalizePhone(lead.phone)
    IN  IF ~Truthy(lead.phone) THEN "invalid"
        ELSE IF ~Truthy(normalized) \/ Len(normalized) < KeyLen THEN "invalid"
        ELSE IF Has(poolPhones, normalized) THEN "duplicates"
        ELSE IF Has(dncPhones, normalized) THEN "dnc"
        ELSE "valid"

\* POST /api/leads/validate: the bucket of one lead of the request
LeadsValidateBucket(dncPhones, poolPhones, lead) ==
    LET normalized == normalizePhone(lead.phone)
    IN  IF ~Truthy(lead.phone) THEN "invalid"
        ELSE IF ~Truthy(normalized) \/ Len(normalized) < KeyLen THEN "invalid"
        ELSE IF Has(dncPhones, normalized) THEN "dnc"
        ELSE IF Has(poolPhones, normalized) THEN "duplicates"
        ELSE "valid"

LeadsValidateResults(dncPhones, poolPhones, leads) ==
    LET B == [i \in 1..Len(leads) |->
                LeadsValidateBucket(dncPhones, poolPhones, leads[i])]
        invalid == InBucket(leads, B, "invalid")
        blocked == InBucket(leads, B, "dnc")
        dups == InBucket(leads, B, "duplicates")
    IN  [op |-> "POST /api/leads/validate",
         leads |-> leads,
         valid |-> InBucket(leads, B, "valid"),
         dnc |-> [i \in 1..Len(blocked) |->
                    [lead |-> blocked[i],
                     reason |-> dncPhones[normalizePhone(blocked[i].phone)].reason]],
         duplicates |-> [i \in 1..Len(dups) |->
                    [lead |-> dups[i],
                     existingCampaign |->
                         poolPhones[normalizePhone(dups[i].phone)].campaign]],
         invalid |-> [i \in 1..Len(invalid) |->
                    [lead |-> invalid[i],
                     reason |-> IF ~Truthy(invalid[i].phone)
                                THEN "No phone number"
                                ELSE "Invalid phone format"]]]

\* the pending batch is posted to /api/leads/validate
LeadsValidateRoute ==
    /\ req.kind = "validate"
    /\ resp' = LeadsValidateResults(dnc, pool, req.arg)
    /\ UNCHANGED <<dnc, pool, now, req, store, job, ejob, crawl>>

----------------------------------------------------------------------------
(* Local lead store *)

\* Array.prototype.find: the first of the indexes whose element satisfies
\* the test, or 0
FindIndex(matching) ==
    IF matching = {} THEN 0
    ELSE CHOOSE i \in matching : \A j \in matching : i <= j

\* loadLocalLeads when local-leads.json does not exist
NoData == [leads |-> <<>>, campaigns |-> <<>>]

\* a lead as addLeadsToLocal stores it: the spread ...lead follows the
\* generated id, so the stored id is the id of the search result
StoredLead(lead, campaignId, campaignName) ==
    [id |-> lead.id, name |-> lead.name, phone |-> lead.phone,
     address |-> lead.address, website |-> lead.website,
     campaignId |-> campaignId, campaignName |-> campaignName,
     status |-> "New", email |-> NULL]

\* addLeadsToLocal: the document it saves (fields city, postalCodes,
\* createdAt, importedAt and lastUpdated are not part of the model)
addLeadsToLocal(data, leads, campaignName, t) ==
    LET at == FindIndex({i \in 1..Len(data.campaigns) :
                                data.campaigns[i].name = campaignName})
        campaigns == IF at = 0
                     THEN Append(data.campaigns,
                                 [id |-> t, name |-> campaignName, leadsCount |-> 0])
                     ELSE data.campaigns
        k == IF at = 0 THEN Len(campaigns) ELSE at
        newLeads == [i \in 1..Len(leads) |->
                        StoredLead(leads[i], campaigns[k].id, campaignName)]
    IN  [leads |-> data.leads \o newLeads,
         campaigns |-> [campaigns EXCEPT
                           ![k].leadsCount = campaigns[k].leadsCount + Len(newLeads)]]

----------------------------------------------------------------------------
(* Scraping jobs *)

UpperCase ==
    <<"A", "B", "C", "D", "E", "F", "G", "H", "I", "J", "K", "L", "M",
      "N", "O", "P", "Q", "R", "S", "T", "U", "V", "W", "X", "Y", "Z">>

LowerCase ==
    <<"a", "b", "c", "d", "e", "f", "g", "h", "i", "j", "k", "l", "m",
      "n", "o", "p", "q", "r", "s", "t", "u", "v", "w", "x", "y", "z">>

\* String.prototype.toLowerCase
toLowerCase(s) ==
    LET lowered ==
          [i \in 1..Len(s) |->
              IF \E u \in 1..Len(UpperCase) : UpperCase[u] = s[i]
              THEN LowerCase[CHOOSE u \in 1..Len(UpperCase) : UpperCase[u] = s[i]]
              ELSE s[i]]
    IN  SubSeq(lowered, 1, Len(s))

\* (value || '')
OrEmpty(v) == IF Truthy(v) THEN v ELSE <<>>

\* Math.round(100 * a / b), for a >= 0 and b > 0
RoundPercent(a, b) == (200 * a + b) \div (2 * b)

\* runScrapingJob: the filter over job.leads, seenPhones being a Set of the
\* phones' digits
RECURSIVE DedupByPhone(_, _)
DedupByPhone(leads, seenPhones) ==
    IF leads = <<>> THEN <<>>
    ELSE LET lead == Head(leads)
             phone == StripNonDigits(lead.phone)
         IN  IF ~Truthy(lead.phone)
             THEN <<lead>> \o DedupByPhone(Tail(leads), seenPhones)
             ELSE IF phone \in seenPhones
             THEN DedupByPhone(Tail(leads), seenPhones)
             ELSE <<lead>> \o DedupByPhone(Tail(leads), seenPhones \cup {phone})

\* runBroadScrapingJob: the filter over job.leads, with seenPhones and seenNames
RECURSIVE DedupBroad(_, _, _)
DedupBroad(leads, seenPhones, seenNames) ==
    IF leads = <<>> THEN <<>>
    ELSE LET lead == Head(leads)
             phone == StripNonDigits(lead.phone)
             nameKey == toLowerCase(OrEmpty(lead.name)) \o <<"-">>
                        \o toLowerCase(OrEmpty(lead.address))
             phones == IF Truthy(lead.phone)
                       THEN seenPhones \cup {phone} ELSE seenPhones
         IN  IF Truthy(lead.phone) /\ phone \in seenPhones
             THEN DedupBroad(Tail(leads), seenPhones, seenNames)
             ELSE IF nameKey \in seenNames
             THEN DedupBroad(Tail(leads), phones, seenNames)
             ELSE <<lead>> \o DedupBroad(Tail(leads), phones, seenNames \cup {nameKey})

\* the same-job dedup pass of a job of the given mode
Dedup(mode, leads) ==
    IF mode = "all_businesses"
    THEN DedupBroad(leads, {}, {})
    ELSE DedupByPhone(leads, {})

\* the loop is over: dedup, completion, auto-save.  scraped keeps the list
\* the filter was given.  (The postal-code progress file is not modelled.)
\* Gives the job and the lead store as they are left.
FinishJob(j, data, t) ==
    LET unique == Dedup(j.mode, j.leads)
    IN  [job |-> [j EXCEPT !.scraped = j.leads, !.leads = unique,
                           !.status = "completed", !.progress = 100, !.pc = "done"],
         store |-> IF Len(unique) > 0
                   THEN addLeadsToLocal(data, unique, j.campaignName, t)
                   ELSE data]

\* runScrapingJob: the head of iteration i, up to the await of the search
BeginNeighborhood(j, i, data, t) ==
    IF i < j.n
    THEN [job |-> [j EXCEPT !.i = i, !.progress = RoundPercent(i, j.n),
                            !.pc = "search"],
          store |-> data]
    ELSE FinishJob([j EXCEPT !.i = i], data, t)

\* runBroadScrapingJob: the head of iteration (i, c), up to the await of the
\* search; past the last category the job pauses or, after the last location,
\* finishes
BeginCategory(j, i, c, data, t) ==
    IF c < MaxCategories
    THEN [job |-> [j EXCEPT !.i = i, !.c = c, !.pc = "search",
                     !.progress = RoundPercent(j.completedOperations,
                                               j.n * MaxCategories)],
          store |-> data]
    ELSE IF i < j.n - 1
    THEN [job |-> [j EXCEPT !.c = c, !.pc = "pause"], store |-> data]
    ELSE FinishJob([j EXCEPT !.i = i + 1, !.c = c], data, t)

\* n more leads fit in the bounded store
StoreFits(n) == Len(store.leads) + n <= MaxStore

NewJob(mode, campaignName, n) ==
    [status |-> "running", mode |-> mode, campaignName |-> campaignName,
     n |-> n, i |-> 0, c |-> 0, pc |-> "start", progress |-> 0,
     completedOperations |-> 0, leads |-> <<>>, scraped |-> <<>>, errors |-> <<>>]

\* POST /api/scrape/start with n locations selected: the job is registered
\* and runs up to its first search
StartJob(mode, campaignName, n) ==
    /\ job.status /= "running"
    /\ StoreFits(MaxJobLeads)
    /\ LET next == IF mode = "all_businesses"
                   THEN BeginCategory(NewJob(mode, campaignName, n), 0, 0, store, now)
                   ELSE BeginNeighborhood(NewJob(mode, campaignName, n), 0, store, now)
       IN  job' = next.job /\ store' = next.store
    /\ UNCHANGED <<dnc, pool, now, req, resp, ejob, crawl>>

\* api.searchBusinessListings resolves with results (all have a phone)
SearchOk(results) ==
    /\ job.status = "running" /\ job.pc = "search"
    /\ Len(job.leads) + Len(results) <= MaxJobLeads
    /\ StoreFits(Len(job.leads) + Len(results))
    /\ LET pushed == [job EXCEPT !.leads = job.leads \o results]
           next ==
             IF job.mode = "all_businesses"
             THEN [job |-> [pushed EXCEPT
                              !.completedOperations = job.completedOperations + 1,
                              !.pc = "delay"],
                   store |-> store]
             ELSE IF job.i < job.n - 1
             THEN [job |-> [pushed EXCEPT !.pc = "delay"], store |-> store]
             ELSE BeginNeighborhood(pushed, job.i + 1, store, now)
       IN  job' = next.job /\ store' = next.store
    /\ UNCHANGED <<dnc, pool, now, req, resp, ejob, crawl>>

\* api.searchBusinessListings rejects, were the error recorded and the loop
\* left
SearchFailAborts ==
    /\ job.status = "running" /\ job.pc = "search"
    /\ Len(job.errors) < MaxErrors
    /\ StoreFits(Len(job.leads))
    /\ LET failed == [job EXCEPT !.errors = Append(job.errors, <<job.i, job.c>>)]
           next == FinishJob(failed, store, now)
       IN  job' = next.job /\ store' = next.store
    /\ UNCHANGED <<dnc, pool, now, req, resp, ejob, crawl>>

\* api.searchBusinessListings rejects: the error is recorded and the loop
\* goes on at once
SearchFail ==
    /\ job.status = "running" /\ job.pc = "search"
    /\ Len(job.errors) < MaxErrors
    /\ StoreFits(Len(job.leads))
    /\ LET failed == [job EXCEPT !.errors = Append(job.errors, <<job.i, job.c>>)]
           next ==
             IF job.mode = "all_businesses"
             THEN BeginCategory(
                      [failed EXCEPT
                         !.completedOperations = job.completedOperations + 1],
                      job.i, job.c + 1, store, now)
             ELSE BeginNeighborhood(failed, job.i + 1, store, now)
       IN  job' = next.job /\ store' = next.store
    /\ UNCHANGED <<dnc, pool, now, req, resp, ejob, crawl>>

\* the rate-limiting timer after a successful search fires
DelayDone ==
    /\ job.status = "running" /\ job.pc = "delay"
    /\ StoreFits(Len(job.leads))
    /\ LET next == IF job.mode = "all_businesses"
                   THEN BeginCategory(job, job.i, job.c + 1, store, now)
                   ELSE BeginNeighborhood(job, job.i + 1, store, now)
       IN  job' = next.job /\ store' = next.store
    /\ UNCHANGED <<dnc, pool, now, req, resp, ejob, crawl>>

\* the timer between two locations of a broad job fires
PauseDone ==
    /\ job.status = "running" /\ job.pc = "pause"
    /\ StoreFits(Len(job.leads))
    /\ LET next == BeginCategory(job, job.i + 1, 0, store, now)
       IN  job' = next.job /\ store' = next.store
    /\ UNCHANGED <<dnc, pool, now, req, resp, ejob, crawl>>

----------------------------------------------------------------------------
(* Lead store routes *)

\* DELETE /api/local/campaigns/:id
DeleteCampaign(id) ==
    /\ store' = [leads |-> SelectSeq(store.leads, LAMBDA l : l.campaignId /= id),
                 campaigns |-> SelectSeq(store.campaigns, LAMBDA c : c.id /= id)]
    /\ resp' = [op |-> "DELETE /api/local/campaigns/:id", ok |-> TRUE]
    /\ UNCHANGED <<dnc, pool, now, req, job, ejob, crawl>>

----------------------------------------------------------------------------
(* Bulk email extraction *)

\* the address a crawl finds
EmailFound == <<"i", "@", "a", ".", "c", "o">>

EmailResult(leadId, error, email) ==
    [leadId |-> leadId, error |-> error, email |-> email]

NewEmailJob(leadIds, data) ==
    [status |-> "running", ids |-> leadIds, k |-> 1, pc |-> "start",
     data |-> data, processed |-> 0, extracted |-> 0, failed |-> 0,
     results |-> <<>>]

\* runEmailExtractionJob from lead k on, up to its next await: leads that
\* are missing, have no website or have an email already are passed over at
\* once; after the last lead the document loaded at the start is saved (and
\* the local that held it is gone).
\* Gives the job and the lead store as they are left.
RECURSIVE EmailScan(_, _, _)
EmailScan(e, k, current) ==
    IF k > Len(e.ids)
    THEN [ejob |-> [e EXCEPT !.k = k, !.status = "completed", !.pc = "done",
                             !.data = NoData],
          store |-> e.data]
    ELSE LET leadId == e.ids[k]
             at == FindIndex({i \in 1..Len(e.data.leads) :
                                e.data.leads[i].id = leadId})
         IN  IF at = 0
             THEN EmailScan([e EXCEPT
                     !.failed = e.failed + 1, !.processed = e.processed + 1,
                     !.results = Append(e.results,
                                    EmailResult(leadId, "Lead not found", NULL))],
                     k + 1, current)
             ELSE IF ~Truthy(e.data.leads[at].website)
             THEN EmailScan([e EXCEPT
                     !.failed = e.failed + 1, !.processed = e.processed + 1,
                     !.results = Append(e.results,
                                    EmailResult(leadId, "No website", NULL))],
                     k + 1, current)
             ELSE IF Truthy(e.data.leads[at].email)
             THEN EmailScan([e EXCEPT
                     !.processed = e.processed + 1,
                     !.results = Append(e.results,
                                    EmailResult(leadId, "skipped",
                                                e.data.leads[at].email))],
                     k + 1, current)
             ELSE [ejob |-> [e EXCEPT !.k = k, !.pc = "crawl"], store |-> current]

\* POST /api/emails/extract: the job is registered, loads the document and
\* runs up to its first crawl
StartEmailJob(leadIds) ==
    /\ ejob.status /= "running"
    /\ Len(leadIds) > 0
    /\ LET next == EmailScan(NewEmailJob(leadIds, store), 1, store)
       IN  ejob' = next.ejob /\ store' = next.store
    /\ UNCHANGED <<dnc, pool, now, req, resp, job, crawl>>

\* the lead the job is at
CurrentLead ==
    ejob.data.leads[FindIndex({i \in 1..Len(ejob.data.leads) :
                                 ejob.data.leads[i].id = ejob.ids[ejob.k]})]

\* crawlWebsite calls url.startsWith on a truthy url: a TypeError, and a
\* rejected promise, when the website is not a string
CrawlRejects == CurrentLead.website \in NonStrings

NotAFunction == "normalizedUrl.startsWith is not a function"

\* CrawlReturn without job.processed++
CrawlReturnUncounted(bestEmail) ==
    /\ ejob.status = "running" /\ ejob.pc = "crawl"
    /\ ~CrawlRejects
    /\ LET leadId == ejob.ids[ejob.k]
           at == FindIndex({i \in 1..Len(ejob.data.leads) :
                              ejob.data.leads[i].id = leadId})
       IN  ejob' =
             IF Truthy(bestEmail)
             THEN [ejob EXCEPT
                     !.data.leads[at].email = bestEmail,
                     !.extracted = ejob.extracted + 1,
                     !.results = Append(ejob.results,
                                    EmailResult(leadId, "none", bestEmail)),
                     !.pc = "delay"]
             ELSE [ejob EXCEPT
                     !.results = Append(ejob.results,
                                    EmailResult(leadId, "No email found", NULL)),
                     !.pc = "delay"]
    /\ UNCHANGED <<dnc, pool, now, req, resp, store, job, crawl>>

\* emailExtractor.crawlWebsite resolves with bestEmail
CrawlReturn(bestEmail) ==
    /\ ejob.status = "running" /\ ejob.pc = "crawl"
    /\ ~CrawlRejects
    /\ LET leadId == ejob.ids[ejob.k]
           at == FindIndex({i \in 1..Len(ejob.data.leads) :
                              ejob.data.leads[i].id = leadId})
       IN  ejob' =
             IF Truthy(bestEmail)
             THEN [ejob EXCEPT
                     !.data.leads[at].email = bestEmail,
                     !.extracted = ejob.extracted + 1,
                     !.results = Append(ejob.results,
                                    EmailResult(leadId, "none", bestEmail)),
                     !.processed = ejob.processed + 1,
                     !.pc = "delay"]
             ELSE [ejob EXCEPT
                     !.results = Append(ejob.results,
                                    EmailResult(leadId, "No email found", NULL)),
                     !.processed = ejob.processed + 1,
                     !.pc = "delay"]
    /\ UNCHANGED <<dnc, pool, now, req, resp, store, job, crawl>>

\* emailExtractor.crawlWebsite rejects: the catch of the job
CrawlThrows ==
    /\ ejob.status = "running" /\ ejob.pc = "crawl"
    /\ CrawlRejects
    /\ ejob' = [ejob EXCEPT
                  !.failed = ejob.failed + 1,
                  !.results = Append(ejob.results,
                                 EmailResult(ejob.ids[ejob.k], NotAFunction, NULL)),
                  !.processed = ejob.processed + 1,
                  !.pc = "delay"]
    /\ UNCHANGED <<dnc, pool, now, req, resp, store, job, crawl>>

\* the rate-limiting timer of the extraction fires
EmailDelayDone ==
    /\ ejob.status = "running" /\ ejob.pc = "delay"
    /\ LET next == EmailScan(ejob, ejob.k + 1, store)
       IN  ejob' = next.ejob /\ store' = next.store
    /\ UNCHANGED <<dnc, pool, now, req, resp, job, crawl>>

----------------------------------------------------------------------------
(* Email cleaning *)

\* [a-zA-Z]
Letters ==
    {"a", "b", "c", "d", "e", "f", "g", "h", "i", "j", "k", "l", "m",
     "n", "o", "p", "q", "r", "s", "t", "u", "v", "w", "x", "y", "z",
     "A", "B", "C", "D", "E", "F", "G", "H", "I", "J", "K", "L", "M",
     "N", "O", "P", "Q", "R", "S", "T", "U", "V", "W", "X", "Y", "Z"}

\* \s
Whitespace == {" ", "\t", "\n", "\r"}

\* [a-zA-Z0-9._%+-]
LocalChars == Letters \cup Digits \cup {".", "_", "%", "+", "-"}

\* [a-zA-Z0-9.-]
DomainChars == Letters \cup Digits \cup {".", "-"}

\* ["\s\\5c] under the flag i
LeadingArtifacts == Whitespace \cup {"\"", "\\", "5", "c", "C"}

\* ["\s\\]
TrailingArtifacts == Whitespace \cup {"\"", "\\"}

DropFirst(s, n) == SubSeq(s, n + 1, Len(s))

StartsWith(s, prefix) ==
    Len(s) >= Len(prefix) /\ SubSeq(s, 1, Len(prefix)) = prefix

\* replace(/^[class]+/, '')
RECURSIVE StripLeading(_, _)
StripLeading(s, class) ==
    IF s /= <<>> /\ Head(s) \in class THEN StripLeading(Tail(s), class) ELSE s

\* replace(/[class]+$/, '')
RECURSIVE StripTrailing(_, _)
StripTrailing(s, class) ==
    IF s /= <<>> /\ s[Len(s)] \in class
    THEN StripTrailing(SubSeq(s, 1, Len(s) - 1), class)
    ELSE s

\* String.prototype.trim
trim(s) == StripTrailing(StripLeading(s, Whitespace), Whitespace)

\* replace(/pattern/g, char) for a literal pattern
RECURSIVE ReplaceAll(_, _, _)
ReplaceAll(s, pattern, char) ==
    IF s = <<>> THEN <<>>
    ELSE IF StartsWith(s, pattern)
    THEN <<char>> \o ReplaceAll(DropFirst(s, Len(pattern)), pattern, char)
    ELSE <<Head(s)>> \o ReplaceAll(Tail(s), pattern, char)

Pct22 == <<"%", "2", "2">>
Pct20 == <<"%", "2", "0">>
Pct3a == <<"%", "3", "a">>
Pct40 == <<"%", "4", "0">>

\* the character an escape sequence stands for, NULL when the three
\* characters are no escape sequence (the texts cleaned hold no escape
\* sequence but these four)
Unescaped(triple) ==
    IF triple = Pct22 THEN "\""
    ELSE IF triple = Pct20 THEN " "
    ELSE IF triple = Pct3a THEN ":"
    ELSE IF triple = Pct40 THEN "@"
    ELSE "null"

\* decodeURIComponent throws on s
RECURSIVE DecodeThrows(_)
DecodeThrows(s) ==
    IF s = <<>> THEN FALSE
    ELSE IF Head(s) = "%"
    THEN IF Len(s) >= 3 /\ Unescaped(SubSeq(s, 1, 3)) /= "null"
         THEN DecodeThrows(DropFirst(s, 3))
         ELSE TRUE
    ELSE DecodeThrows(Tail(s))

\* decodeURIComponent(s), when it does not throw
RECURSIVE decodeURIComponent(_)
decodeURIComponent(s) ==
    IF s = <<>> THEN <<>>
    ELSE IF Head(s) = "%"
    THEN <<Unescaped(SubSeq(s, 1, 3))>> \o decodeURIComponent(DropFirst(s, 3))
    ELSE <<Head(s)>> \o decodeURIComponent(Tail(s))

\* the end of the match of
\* /([a-zA-Z0-9._%+-]+@[a-zA-Z0-9.-]+\.[a-zA-Z]{2,})/ that starts at i, or 0
MatchEnd(s, i) ==
    LET n == Len(s)
        \* the greedy local part ends at the first character out of its class
        at == IF \E j \in i..n : s[j] \notin LocalChars
              THEN CHOOSE j \in i..n :
                      s[j] \notin LocalChars
                      /\ \A k \in i..(j - 1) : s[k] \in LocalChars
              ELSE 0
        \* the last character of the run of domain characters behind the @
        runEnd == IF at = 0 THEN 0
                  ELSE IF \E j \in (at + 1)..n : s[j] \notin DomainChars
                  THEN (CHOOSE j \in (at + 1)..n :
                          s[j] \notin DomainChars
                          /\ \A k \in (at + 1)..(j - 1) : s[k] \in DomainChars) - 1
                  ELSE n
        \* the dots of the run that a top-level domain may follow
        dots == {d \in (at + 2)..(runEnd - 2) :
                    s[d] = "." /\ s[d + 1] \in Letters /\ s[d + 2] \in Letters}
    IN  IF at = 0 \/ at = i \/ s[at] /= "@" \/ dots = {} THEN 0
        ELSE LET dot == CHOOSE d \in dots : \A e \in dots : e <= d
             IN  IF \E j \in (dot + 1)..runEnd : s[j] \notin Letters
                 THEN (CHOOSE j \in (dot + 1)..runEnd :
                         s[j] \notin Letters
                         /\ \A k \in (dot + 1)..(j - 1) : s[k] \in Letters) - 1
                 ELSE runEnd

\* cleaned.match(...)[1]: the leftmost match, NULL when there is none
EmailMatch(s) ==
    LET starts == {i \in 1..Len(s) : MatchEnd(s, i) > 0}
    IN  IF starts = {} THEN NULL
        ELSE LET first == CHOOSE i \in starts : \A j \in starts : i <= j
             IN  SubSeq(s, first, MatchEnd(s, first))

\* EmailExtractor.cleanEmail
cleanEmail(email) ==
    IF ~Truthy(email) THEN NULL
    ELSE LET lowered == trim(toLowerCase(email))
             decoded ==
                IF \E i \in 1..Len(lowered) : lowered[i] = "%"
                THEN IF DecodeThrows(lowered)
                     THEN ReplaceAll(ReplaceAll(ReplaceAll(lowered,
                              Pct22, "\""), Pct20, " "), Pct3a, ":")
                     ELSE decodeURIComponent(lowered)
                ELSE lowered
             headless == StripLeading(decoded, LeadingArtifacts)
             tailless == StripTrailing(headless, TrailingArtifacts)
             Mailto == <<"m", "a", "i", "l", "t", "o", ":">>
             cleaned == IF StartsWith(toLowerCase(tailless), Mailto)
                        THEN DropFirst(tailless, Len(Mailto))
                        ELSE tailless
             emailMatch == EmailMatch(cleaned)
         IN  IF emailMatch /= NULL THEN toLowerCase(emailMatch) ELSE NULL

\* a raw match is cleaned
CleanEmail ==
    /\ req.kind = "cleanEmail"
    /\ resp' = [op |-> "cleanEmail", email |-> cleanEmail(req.arg)]
    /\ UNCHANGED <<dnc, pool, now, req, store, job, ejob, crawl>>

----------------------------------------------------------------------------
(* Email extraction from HTML *)

\* \w
WordChars == Letters \cup Digits \cup {"_"}

\* \b between s[i - 1] and s[i]
Boundary(s, i) ==
    (i - 1 \in 1..Len(s) /\ s[i - 1] \in WordChars)
        /= (i \in 1..Len(s) /\ s[i] \in WordChars)

\* the end of the match of
\* /\b([a-zA-Z0-9._%+-]+@[a-zA-Z0-9.-]+\.[a-zA-Z]{2,})\b/ that starts at i,
\* or 0
BoundedMatchEnd(s, i) ==
    LET n == Len(s)
        at == IF \E j \in i..n : s[j] \notin LocalChars
              THEN CHOOSE j \in i..n :
                      s[j] \notin LocalChars
                      /\ \A k \in i..(j - 1) : s[k] \in LocalChars
              ELSE 0
        runEnd == IF at = 0 THEN 0
                  ELSE IF \E j \in (at + 1)..n : s[j] \notin DomainChars
                  THEN (CHOOSE j \in (at + 1)..n :
                          s[j] \notin DomainChars
                          /\ \A k \in (at + 1)..(j - 1) : s[k] \in DomainChars) - 1
                  ELSE n
        \* the ends of a top-level domain at which \b holds; the greedy
        \* domain and top-level domain make the last of them the match's end
        ends == {e \in (at + 4)..runEnd :
                    /\ Boundary(s, e + 1)
                    /\ \E d \in (at + 2)..(e - 2) :
                          /\ s[d] = "."
                          /\ \A k \in (d + 1)..e : s[k] \in Letters}
    IN  IF at = 0 \/ at = i \/ s[at] /= "@" \/ ~Boundary(s, i) \/ ends = {}
        THEN 0
        ELSE CHOOSE e \in ends : \A f \in ends : f <= e

MailtoText == <<"m", "a", "i", "l", "t", "o", ":">>

\* the groups of the matches of mailtoRegex (flags g, i) from index from on
RECURSIVE MailtoMatches(_, _)
MailtoMatches(s, from) ==
    LET starts == {i \in from..(Len(s) - Len(MailtoText)) :
                      /\ toLowerCase(SubSeq(s, i, i + Len(MailtoText) - 1))
                            = MailtoText
                      /\ MatchEnd(s, i + Len(MailtoText)) > 0}
    IN  IF starts = {} THEN <<>>
        ELSE LET first == CHOOSE i \in starts : \A j \in starts : i <= j
                 end == MatchEnd(s, first + Len(MailtoText))
             IN  <<SubSeq(s, first + Len(MailtoText), end)>>
                    \o MailtoMatches(s, end + 1)

\* the groups of the matches of emailRegex (flags g, i) from index from on
RECURSIVE BareMatches(_, _)
BareMatches(s, from) ==
    LET starts == {i \in from..Len(s) : BoundedMatchEnd(s, i) > 0}
    IN  IF starts = {} THEN <<>>
        ELSE LET first == CHOOSE i \in starts : \A j \in starts : i <= j
                 end == BoundedMatchEnd(s, first)
             IN  <<SubSeq(s, first, end)>> \o BareMatches(s, end + 1)

\* Array.from(new Set(values)): the values in the order of their first
\* occurrence
RECURSIVE ArrayFromSet(_)
ArrayFromSet(values) ==
    IF values = <<>> THEN <<>>
    ELSE LET front == ArrayFromSet(SubSeq(values, 1, Len(values) - 1))
             last == values[Len(values)]
         IN  IF \E i \in 1..Len(front) : front[i] = last THEN front
             ELSE Append(front, last)

\* EmailExtractor.extractEmailsFromHTML
extractEmailsFromHTML(html) ==
    LET matches == MailtoMatches(html, 1) \o BareMatches(html, 1)
        cleaned == [i \in 1..Len(matches) |-> cleanEmail(matches[i])]
    IN  ArrayFromSet(SelectSeq(cleaned, Truthy))

\* the emails of the pending HTML are extracted
ExtractEmails ==
    /\ req.kind = "extract"
    /\ resp' = [op |-> "extractEmailsFromHTML",
                emails |-> extractEmailsFromHTML(req.arg)]
    /\ UNCHANGED <<dnc, pool, now, req, store, job, ejob, crawl>>

----------------------------------------------------------------------------
(* Email scoring *)

\* skipPatterns of the form /^text@/i ([._-]? written out)
SkipPrefixes ==
    {<<"n", "o", "r", "e", "p", "l", "y", "@">>,
     <<"n", "o", "-", "r", "e", "p", "l", "y", "@">>,
     <<"d", "o", "n", "o", "t", "r", "e", "p", "l", "y", "@">>,
     <<"m", "a", "i", "l", "e", "r", "-", "d", "a", "e", "m", "o", "n", "@">>,
     <<"p", "o", "s", "t", "m", "a", "s", "t", "e", "r", "@">>,
     <<"w", "e", "b", "m", "a", "s", "t", "e", "r", "@">>,
     <<"n", "o", "m", "@">>,
     <<"n", "a", "m", "e", "@">>,
     <<"e", "m", "a", "i", "l", "@">>,
     <<"y", "o", "u", "r", "e", "m", "a", "i", "l", "@">>,
     <<"y", "o", "u", "r", ".", "e", "m", "a", "i", "l", "@">>,
     <<"y", "o", "u", "r", "_", "e", "m", "a", "i", "l", "@">>,
     <<"y", "o", "u", "r", "-", "e", "m", "a", "i", "l", "@">>,
     <<"v", "o", "t", "r", "e", "c", "o", "u", "r", "r", "i", "e", "l", "@">>,
     <<"v", "o", "t", "r", "e", ".", "c", "o", "u", "r", "r", "i", "e", "l", "@">>,
     <<"v", "o", "t", "r", "e", "_", "c", "o", "u", "r", "r", "i", "e", "l", "@">>,
     <<"v", "o", "t", "r", "e", "-", "c", "o", "u", "r", "r", "i", "e", "l", "@">>,
     <<"j", "a", "n", "e", "@">>,
     <<"j", "o", "h", "n", "@">>,
     <<"j", "a", "n", "e", "d", "o", "e", "@">>,
     <<"j", "o", "h", "n", "d", "o", "e", "@">>,
     <<"t", "e", "s", "t", "@">>,
     <<"d", "e", "m", "o", "@">>,
     <<"s", "a", "m", "p", "l", "e", "@">>,
     <<"u", "s", "e", "r", "@">>,
     <<"c", "l", "i", "e", "n", "t", "@">>,
     <<"c", "u", "s", "t", "o", "m", "e", "r", "@">>}

\* skipPatterns of the form /@text/i
SkipInfixes ==
    {<<"@", "e", "x", "a", "m", "p", "l", "e", ".">>,
     <<"@", "e", "x", "e", "m", "p", "l", "e", ".">>,
     <<"@", "t", "e", "s", "t", ".">>,
     <<"@", "l", "o", "c", "a", "l", "h", "o", "s", "t">>}

\* skipPatterns of the form /text$/i
SkipSuffixes ==
    {<<".", "p", "n", "g">>,
     <<".", "j", "p", "g">>,
     <<".", "g", "i", "f">>,
     <<".", "j", "p", "e", "g">>,
     <<".", "w", "e", "b", "p">>,
     <<".", "s", "v", "g">>,
     <<"@", "s", "e", "n", "t", "r", "y", ".", "i", "o">>,
     <<"@", "s", "e", "n", "t", "r", "y", ".", "w", "i", "x", "p", "r", "e", "s", "s", ".", "c", "o", "m">>,
     <<"@", "s", "e", "n", "t", "r", "y", "-", "n", "e", "x", "t", ".", "w", "i", "x", "p", "r", "e", "s", "s", ".", "c", "o", "m">>,
     <<"@", "w", "i", "x", "p", "r", "e", "s", "s", ".", "c", "o", "m">>,
     <<"@", "c", "o", "n", "v", "e", "r", "t", "u", "s", ".", "c", "o", "m">>,
     <<"@", "d", "e", "a", "l", "e", "r", ".", "c", "o", "m">>,
     <<"@", "d", "e", "a", "l", "e", "r", "e", "p", "r", "o", "c", "e", "s", "s", ".", "c", "o", "m">>,
     <<"@", "d", "e", "a", "l", "e", "r", "i", "n", "s", "p", "i", "r", "e", ".", "c", "o", "m">>,
     <<"@", "d", "e", "a", "l", "e", "r", "s", "o", "c", "k", "e", "t", ".", "c", "o", "m">>}

\* priorityPatterns of the form /^text@/i
PriorityPrefixes ==
    {<<"i", "n", "f", "o", "@">>,
     <<"c", "o", "n", "t", "a", "c", "t", "@">>,
     <<"s", "a", "l", "e", "s", "@">>,
     <<"v", "e", "n", "t", "e", "s", "@">>,
     <<"h", "e", "l", "l", "o", "@">>,
     <<"b", "o", "n", "j", "o", "u", "r", "@">>,
     <<"d", "i", "r", "e", "c", "t", "i", "o", "n", "@">>,
     <<"o", "w", "n", "e", "r", "@">>,
     <<"p", "r", "o", "p", "r", "i", "e", "t", "a", "i", "r", "e", "@">>,
     <<"m", "a", "n", "a", "g", "e", "r", "@">>,
     <<"g", "e", "r", "a", "n", "t", "@">>,
     <<"c", "o", "m", "m", "e", "r", "c", "i", "a", "l", "@">>,
     <<"r", "e", "c", "e", "p", "t", "i", "o", "n", "@">>,
     <<"a", "d", "m", "i", "n", "@">>,
     <<"s", "e", "r", "v", "i", "c", "e", "@">>,
     <<"r", "e", "s", "e", "r", "v", "a", "t", "i", "o", "n", "@">>}

EndsWith(s, suffix) ==
    Len(s) >= Len(suffix)
    /\ SubSeq(s, Len(s) - Len(suffix) + 1, Len(s)) = suffix

\* the positions of s at which text occurs
Occurrences(s, text) ==
    {i \in 1..(Len(s) - Len(text) + 1) :
        /\ text = <<>> \/ s[i] = text[1]
        /\ SubSeq(s, i, i + Len(text) - 1) = text}

\* String.prototype.includes
Includes(s, text) == text = <<>> \/ Occurrences(s, text) /= {}

\* the length of the longest prefix of s made of characters of class
PrefixRun(s, class) ==
    LET others == {i \in 1..Len(s) : s[i] \notin class}
    IN  IF others = {} THEN Len(s)
        ELSE (CHOOSE i \in others : \A j \in others : i <= j) - 1

\* [a-f0-9] under the flag i
HexChars == Digits \cup {"a", "b", "c", "d", "e", "f", "A", "B", "C", "D", "E", "F"}

\* the shortest hex-like local part: {20,}
HexMin == 20

\* /^[a-f0-9]{20,}@/i
HexLocalPart(s) ==
    LET run == PrefixRun(s, HexChars)
    IN  run >= HexMin /\ run < Len(s) /\ s[run + 1] = "@"

\* /@.*sentry.*\./i
SentryDomain(s) ==
    \E at \in 1..Len(s) :
        /\ s[at] = "@"
        /\ \E i \in Occurrences(toLowerCase(s), <<"s", "e", "n", "t", "r", "y">>) :
              /\ i > at
              /\ \E dot \in (i + 6)..Len(s) : s[dot] = "."

\* some pattern of skipPatterns matches
Skipped(email) ==
    LET e == toLowerCase(email)
    IN  \/ \E t \in SkipPrefixes : StartsWith(e, t)
        \/ \E t \in SkipInfixes : Includes(e, t)
        \/ \E t \in SkipSuffixes : EndsWith(e, t)
        \/ SentryDomain(email)
        \/ HexLocalPart(email)

\* /^[a-z]+<sep>[a-z]+@/i
TwoNames(s, sep) ==
    LET first == PrefixRun(s, Letters)
        rest == SubSeq(s, first + 2, Len(s))
        second == PrefixRun(rest, Letters)
    IN  /\ first >= 1 /\ first < Len(s) /\ s[first + 1] = sep
        /\ second >= 1 /\ second < Len(rest) /\ rest[second + 1] = "@"

\* some pattern of priorityPatterns matches
Priority(email) ==
    LET e == toLowerCase(email)
    IN  \/ TwoNames(email, ".")
        \/ TwoNames(email, "_")
        \/ \E t \in PriorityPrefixes : StartsWith(e, t)

\* String.prototype.split(sep): the pieces of s between the separators
RECURSIVE Split(_, _)
Split(s, sep) ==
    LET seps == {i \in 1..Len(s) : s[i] = sep}
    IN  IF seps = {} THEN <<s>>
        ELSE LET at == CHOOSE i \in seps : \A j \in seps : i <= j
             IN  <<SubSeq(s, 1, at - 1)>>
                    \o Split(SubSeq(s, at + 1, Len(s)), sep)

\* domain.replace(/^www\./, '').toLowerCase().split('.')[0]
SiteLabel(domain) ==
    LET www == <<"w", "w", "w", ".">>
        bare == IF StartsWith(domain, www) THEN DropFirst(domain, Len(www))
                ELSE domain
    IN  Split(toLowerCase(bare), ".")[1]

\* the email's domain holds the first label of the site's domain
DomainMatches(email, domain) ==
    /\ Truthy(domain)
    /\ Len(Split(email, "@")) >= 2
    /\ Split(email, "@")[2] /= <<>>
    /\ Includes(Split(email, "@")[2], SiteLabel(domain))

\* the score of an email that is not skipped, were the penalty for digits
\* left out
ScoreWithoutDigitPenalty(email, domain) ==
    LET localPart == Split(email, "@")[1]
    IN  50
        + (IF DomainMatches(email, domain) THEN 30 ELSE 0)
        + (IF Priority(email) THEN 20 ELSE 0)
        - (IF Len(localPart) > 30 THEN 20 ELSE 0)

\* the score of an email that is not skipped
Score(email, domain) ==
    LET localPart == Split(email, "@")[1]
        numberCount == Len(SelectSeq(localPart, LAMBDA c : c \in Digits))
    IN  50
        + (IF DomainMatches(email, domain) THEN 30 ELSE 0)
        + (IF Priority(email) THEN 20 ELSE 0)
        - (IF Len(localPart) > 30 THEN 20 ELSE 0)
        - (IF numberCount > 4 THEN 15 ELSE 0)

\* a sort by score descending that puts the later of two equal scores first
RECURSIVE SortByScoreLastFirst(_)
SortByScoreLastFirst(scored) ==
    IF scored = <<>> THEN <<>>
    ELSE LET top == CHOOSE i \in 1..Len(scored) :
                       /\ \A j \in 1..Len(scored) : scored[j].score <= scored[i].score
                       /\ \A j \in (i + 1)..Len(scored) :
                             scored[j].score < scored[i].score
         IN  <<scored[top]>>
                \o SortByScoreLastFirst(SubSeq(scored, 1, top - 1)
                                        \o SubSeq(scored, top + 1, Len(scored)))

\* Array.prototype.sort((a, b) => b.score - a.score): stable, by score
\* descending
RECURSIVE SortByScore(_)
SortByScore(scored) ==
    IF scored = <<>> THEN <<>>
    ELSE LET top == CHOOSE i \in 1..Len(scored) :
                       /\ \A j \in 1..Len(scored) : scored[j].score <= scored[i].score
                       /\ \A j \in 1..(i - 1) : scored[j].score < scored[i].score
         IN  <<scored[top]>>
                \o SortByScore(SubSeq(scored, 1, top - 1)
                               \o SubSeq(scored, top + 1, Len(scored)))

\* scored.push({ email, score }) for every email kept
RECURSIVE Scored(_, _)
Scored(kept, domain) ==
    IF kept = <<>> THEN <<>>
    ELSE <<[email |-> Head(kept), score |-> Score(Head(kept), domain)]>>
            \o Scored(Tail(kept), domain)

\* EmailExtractor.filterAndScoreEmails, were the length not tested
filterAndScoreEmailsAnyLength(emails, domain) ==
    LET kept == SelectSeq(emails, LAMBDA e : Truthy(e) /\ ~Skipped(e))
    IN  SortByScore(Scored(kept, domain))

\* EmailExtractor.filterAndScoreEmails
filterAndScoreEmails(emails, domain) ==
    LET kept == SelectSeq(emails,
                    LAMBDA e : Truthy(e) /\ Len(e) <= 100 /\ ~Skipped(e))
    IN  SortByScore(Scored(kept, domain))

\* the pending candidates are filtered and scored
FilterAndScore ==
    /\ req.kind = "score"
    /\ resp' = [op |-> "filterAndScoreEmails",
                scored |-> filterAndScoreEmails(req.arg, req.domain)]
    /\ UNCHANGED <<dnc, pool, now, req, store, job, ejob, crawl>>

----------------------------------------------------------------------------
(* The crawl of one website *)

\* pagesToCheck.slice(0, 3)
MaxPages == 3

Https == <<"h", "t", "t", "p", "s", ":", "/", "/">>

\* the first two of contactPaths
ContactPaths == <<<<"/", "c", "o", "n", "t", "a", "c", "t">>, <<"/", "c", "o", "n", "t", "a", "c", "t", "-", "u", "s">>>>

\* the URL with https:// in front unless it starts with http
NormalizedUrl(url) ==
    IF StartsWith(url, <<"h", "t", "t", "p">>) THEN url ELSE Https \o url

\* the host of a normalized URL: the text between the scheme and the path
HostOf(url) == Split(DropFirst(url, Len(Https)), "/")[1]

\* new URL(url) does not throw
ValidUrl(url) ==
    /\ StartsWith(url, Https)
    /\ HostOf(url) /= <<>>
    /\ \A i \in 1..Len(HostOf(url)) : HostOf(url)[i] \in DomainChars

\* EmailExtractor.getDomain of a normalized URL
getDomain(url) ==
    IF ValidUrl(url) THEN toLowerCase(HostOf(url)) ELSE NULL

\* pagesToCheck.slice(0, 3): the URL itself and, when new URL(path, url)
\* does not throw, the contact pages of its origin
PagesToCheck(url) ==
    IF ValidUrl(url)
    THEN SubSeq(<<url>> \o [i \in 1..Len(ContactPaths) |->
                               Https \o getDomain(url) \o ContactPaths[i]],
                1, MaxPages)
    ELSE <<url>>

TimeoutOn == <<"T", "i", "m", "e", "o", "u", "t", " ", "o", "n", " ">>

\* `Timeout on ${pageUrl}`
TimeoutText(pageUrl) == TimeoutOn \o pageUrl

\* `${error.message} on ${pageUrl}`
ErrorText(message, pageUrl) == message \o <<" ", "o", "n", " ">> \o pageUrl

\* the page of the fetch in flight
PageUrl(c) == c.pages[c.k]

\* the crawl after its fetch answered 2xx with the text html
Fetched(c, html) ==
    [c EXCEPT !.pc = "delay",
              !.outcomes = Append(@, "ok"),
              !.allEmails = ArrayFromSet(@ \o extractEmailsFromHTML(html))]

\* the crawl after its fetch answered with a status that is not 2xx, with
\* an error entry for the page
NotOkRecorded(c) ==
    [c EXCEPT !.pc = "delay",
              !.outcomes = Append(@, "status"),
              !.errors = Append(@, ErrorText(<<"4", "0", "4">>, PageUrl(c)))]

\* the crawl after its fetch answered with a status that is not 2xx
NotOk(c) ==
    [c EXCEPT !.pc = "delay", !.outcomes = Append(@, "status")]

\* the crawl after its fetch was aborted by the timer, were the loop left
TimedOutLeaving(c) ==
    [c EXCEPT !.pc = "delay",
              !.outcomes = Append(@, "timeout"),
              !.errors = Append(@, TimeoutText(PageUrl(c))),
              !.pages = SubSeq(@, 1, c.k)]

\* the crawl after its fetch was aborted by the timer (AbortError)
TimedOut(c) ==
    [c EXCEPT !.pc = "delay",
              !.outcomes = Append(@, "timeout"),
              !.errors = Append(@, TimeoutText(PageUrl(c)))]

\* the crawl after its fetch threw an error that is dropped
ThrownSilently(c, message) ==
    [c EXCEPT !.pc = "delay", !.outcomes = Append(@, "error")]

\* the crawl after its fetch, or the reading of the answer, threw another
\* error
Thrown(c, message) ==
    [c EXCEPT !.pc = "delay",
              !.outcomes = Append(@, "error"),
              !.errors = Append(@, ErrorText(message, PageUrl(c)))]

\* what crawlWebsite returns behind its loop
CrawlResult(c) ==
    LET scored == filterAndScoreEmails(c.allEmails, c.domain)
    IN  [emails |-> scored,
         bestEmail |-> IF Len(scored) > 0 THEN scored[1].email ELSE NULL,
         totalFound |-> Len(c.allEmails),
         errors |-> IF Len(c.errors) > 0 THEN c.errors ELSE NULL]

\* crawlWebsite(url) up to its first fetch
StartCrawl(url) ==
    /\ crawl.status /= "running"
    /\ crawl.n < MaxCrawls
    /\ LET n == crawl.n + 1
       IN  crawl' =
             IF ~Truthy(url)
             THEN [status |-> "returned", n |-> n, url |-> url,
                   pages |-> <<>>, outcomes |-> <<>>,
                   result |-> [emails |-> <<>>, error |-> "No URL provided"]]
             ELSE IF url \in NonStrings
             THEN \* url.startsWith is not a function
                  [status |-> "threw", n |-> n, url |-> url,
                   pages |-> <<>>, outcomes |-> <<>>]
             ELSE [status |-> "running", n |-> n, url |-> url,
                   domain |-> getDomain(NormalizedUrl(url)),
                   pages |-> PagesToCheck(NormalizedUrl(url)),
                   k |-> 1, pc |-> "fetch", outcomes |-> <<>>,
                   allEmails |-> <<>>, errors |-> <<>>]
    /\ UNCHANGED <<dnc, pool, now, req, resp, store, job, ejob>>

\* the fetch answers 2xx and the text of the page is read
FetchOk(html) ==
    /\ crawl.status = "running" /\ crawl.pc = "fetch"
    /\ ValidUrl(PageUrl(crawl))
    /\ crawl' = Fetched(crawl, html)
    /\ UNCHANGED <<dnc, pool, now, req, resp, store, job, ejob>>

\* the fetch answers with a status that is not 2xx
FetchNotOk ==
    /\ crawl.status = "running" /\ crawl.pc = "fetch"
    /\ ValidUrl(PageUrl(crawl))
    /\ crawl' = NotOk(crawl)
    /\ UNCHANGED <<dnc, pool, now, req, resp, store, job, ejob>>

\* the timer aborts the fetch
FetchTimeout ==
    /\ crawl.status = "running" /\ crawl.pc = "fetch"
    /\ ValidUrl(PageUrl(crawl))
    /\ crawl' = TimedOut(crawl)
    /\ UNCHANGED <<dnc, pool, now, req, resp, store, job, ejob>>

\* the fetch, or the reading of the answer, throws another error; an URL
\* that does not parse can only end here
FetchError(message) ==
    /\ crawl.status = "running" /\ crawl.pc = "fetch"
    /\ crawl' = Thrown(crawl, message)
    /\ UNCHANGED <<dnc, pool, now, req, resp, store, job, ejob>>

\* the delay behind a page is over: the next page is fetched, or the crawl
\* returns
PageDelayDone ==
    /\ crawl.status = "running" /\ crawl.pc = "delay"
    /\ crawl' =
         IF crawl.k < Len(crawl.pages)
         THEN [crawl EXCEPT !.k = @ + 1, !.pc = "fetch"]
         ELSE [status |-> "returned", n |-> crawl.n, url |-> crawl.url,
               pages |-> crawl.pages, outcomes |-> crawl.outcomes,
               found |-> crawl.allEmails, result |-> CrawlResult(crawl)]
    /\ UNCHANGED <<dnc, pool, now, req, resp, store, job, ejob>>

----------------------------------------------------------------------------
(* Initial state: no document exists yet, no job was started *)

NoJob == [status |-> "none"]

NoReq == [kind |-> "none"]

\* no crawl was started yet; n counts the crawls of the behaviour
NoCrawl == [status |-> "none", n |-> 0]

Init ==
    /\ dnc = EmptyMap
    /\ pool = EmptyMap
    /\ now = 0
    /\ req = NoReq
    /\ resp = [op |-> "none", ok |-> FALSE]
    /\ store = NoData
    /\ job = NoJob
    /\ ejob = NoJob
    /\ crawl = NoCrawl

----------------------------------------------------------------------------
(* The DNC registry under its operations *)

Next ==
    \/ Tick
    \/ \E p \in AddInputs, a \in AddArgs : DNC_add(p, a[1], a[2])
    \/ \E p \in PhoneInputs : DNC_remove(p)
    \/ \E p \in PhoneInputs : DNC_check(p)
    \/ \E p \in AddInputs, r \in Reasons : DncAddRoute(p, r)
    \/ \E p \in PhoneInputs : DncCheckRoute(p)
    \/ \E p \in PhoneInputs : DncDeleteRoute(p)
    \/ \E p \in OutcomeInputs, o \in Outcomes : LeadsOutcomeRoute(p, o)

Spec == Init /\ [][Next]_vars

----------------------------------------------------------------------------
(* The lead pool under its operations *)

TrackInputs == {PhoneDashedA, PhonePlusA, PhoneB, PhoneShort, NULL}

LeadIds == {"p1", "p2"}

Campaigns == {"c1", "c2"}

\* the leads of a track request
TrackLeads == {LeadA, LeadA2, LeadB, LeadNoPhone}

NextPool ==
    \/ Tick
    \/ \E p \in TrackInputs, i \in LeadIds, c \in Campaigns : LeadPool_track(p, i, c)
    \/ \E p \in PhoneInputs : LeadPool_check(p)
    \/ \E ls \in SeqUpTo(TrackLeads, MaxBatch), c \in Campaigns :
          LeadsTrackRoute(ls, c)

SpecPool == Init /\ [][NextPool]_vars

----------------------------------------------------------------------------
(* Batch validation: a function of the registry, the pool and the batch *)

ValidateLeads == {LeadA, LeadA2, LeadB, LeadShort, LeadNoPhone, LeadNoName}

\* registry contents: what DNC.add leaves after adding some of these phones
RECURSIVE DncFilled(_)
DncFilled(phones) ==
    IF phones = <<>> THEN EmptyMap
    ELSE DNC_addPhones(DncFilled(Tail(phones)), Head(phones), "Not interested",
                       "manual", 0)

\* pool contents: what LeadPool.track leaves after tracking some of these phones
RECURSIVE PoolFilled(_)
PoolFilled(phones) ==
    IF phones = <<>> THEN EmptyMap
    ELSE LeadPool_trackPhones(PoolFilled(Tail(phones)), Head(phones), "p0", "c0", 0)

InitValidate ==
    /\ dnc \in {DncFilled(ps) : ps \in SeqUpTo({PhoneDashedA, PhoneShort}, MaxFill)}
    /\ pool \in {PoolFilled(ps) : ps \in SeqUpTo({PhonePlainA, PhoneB}, MaxFill)}
    /\ now = 0
    /\ req \in [kind : {"validate"}, arg : SeqUpTo(ValidateLeads, MaxBatch)]
    /\ resp = [op |-> "none", ok |-> FALSE]
    /\ store = NoData
    /\ job = NoJob
    /\ ejob = NoJob
    /\ crawl = NoCrawl

NextValidate ==
    \/ FilterBatch
    \/ LeadsValidateRoute

SpecValidate == InitValidate /\ [][NextValidate]_vars

----------------------------------------------------------------------------
(* Scraping jobs *)

\* the businesses a search may return
SearchLeads == {LeadA, LeadA3, LeadB, LeadB2}

Modes == {"category", "all_businesses"}

\* the registry and the pool a job runs beside: empty, or filled beforehand
InitJobs ==
    /\ dnc \in {DncFilled(phones) : phones \in SeqUpTo({PhoneDashedA}, 1)}
    /\ pool \in {PoolFilled(phones) : phones \in SeqUpTo({PhoneB}, 1)}
    /\ now = 0
    /\ req = NoReq
    /\ resp = [op |-> "none", ok |-> FALSE]
    /\ store = NoData
    /\ job = NoJob
    /\ ejob = NoJob
    /\ crawl = NoCrawl

NextJobs ==
    \/ Tick
    \/ \E mode \in Modes, c \in Campaigns, n \in 1..MaxNeighborhoods :
          StartJob(mode, c, n)
    \/ \E results \in SeqUpTo(SearchLeads, MaxResults) : SearchOk(results)
    \/ SearchFail
    \/ DelayDone
    \/ PauseDone

SpecJobs == InitJobs /\ [][NextJobs]_vars

----------------------------------------------------------------------------
(* Scraping jobs whose searches settle and whose timers fire *)

\* the awaited search resolves or rejects
SearchSettles ==
    \/ \E results \in SeqUpTo({LeadA}, 1) : SearchOk(results)
    \/ SearchFail

NextJobsFair ==
    \/ \E mode \in Modes, n \in 1..MaxNeighborhoods : StartJob(mode, "c1", n)
    \/ SearchSettles
    \/ DelayDone
    \/ PauseDone

\* a pending promise of the search client settles and a pending setTimeout
\* fires; nothing forces a new job to be started
SpecJobsFair ==
    /\ Init
    /\ [][NextJobsFair]_vars
    /\ WF_vars(SearchSettles)
    /\ WF_vars(DelayDone)
    /\ WF_vars(PauseDone)

----------------------------------------------------------------------------
(* The lead store under scraping jobs, email extraction and campaign deletion *)

StoreLeads == {LeadA, LeadB}

EmailIds == {"p1", "p9"}

NonEmptySeqUpTo(S, n) == SeqUpTo(S, n) \ {<<>>}

NextStore ==
    \/ Tick
    \/ \E c \in Campaigns : StartJob("category", c, 1)
    \/ \E results \in SeqUpTo(StoreLeads, 1) : SearchOk(results)
    \/ \E leadIds \in NonEmptySeqUpTo(EmailIds, MaxIds) : StartEmailJob(leadIds)
    \/ \E bestEmail \in {NULL, EmailFound} : CrawlReturn(bestEmail)
    \/ EmailDelayDone
    \/ \E id \in 0..MaxClock : DeleteCampaign(id)

SpecStore == Init /\ [][NextStore]_vars

\* the lead store the email extraction starts with: the file of an earlier
\* run, its leads with or without a website and an email
MaxDocLeads == 2

EmailBob2 == <<"b", "@", "a", ".", "c", "o">>

DocLeads ==
    {StoredLead(LeadA, 0, "c1"),
     StoredLead(LeadA2, 0, "c1"),
     [StoredLead(LeadB, 0, "c1") EXCEPT !.email = EmailBob2],
     [StoredLead(LeadShort, 0, "c1") EXCEPT !.website = NumberA]}

Document(leads) ==
    [leads |-> leads,
     campaigns |-> IF leads = <<>> THEN <<>>
                   ELSE <<[id |-> 0, name |-> "c1", leadsCount |-> Len(leads)]>>]

DocIds == {"p1", "p2", "p4", "p5"}

InitEmail ==
    /\ dnc = EmptyMap
    /\ pool = EmptyMap
    /\ now = 0
    /\ req = NoReq
    /\ resp = [op |-> "none", ok |-> FALSE]
    /\ \E leads \in SeqUpTo(DocLeads, MaxDocLeads) : store = Document(leads)
    /\ job = NoJob
    /\ ejob = NoJob
    /\ crawl = NoCrawl

NextEmail ==
    \/ \E leadIds \in NonEmptySeqUpTo(DocIds, MaxIds) : StartEmailJob(leadIds)
    \/ \E bestEmail \in {NULL, EmailFound} : CrawlReturn(bestEmail)
    \/ CrawlThrows
    \/ EmailDelayDone

SpecEmail == InitEmail /\ [][NextEmail]_vars

----------------------------------------------------------------------------
(* Email cleaning over raw matches *)

Chars(str) ==
    CASE str = "contact" -> <<"c", "o", "n", "t", "a", "c", "t">>
      [] str = "commercial" ->
            <<"c", "o", "m", "m", "e", "r", "c", "i", "a", "l">>
      [] str = "5star" -> <<"5", "s", "t", "a", "r">>
      [] str = "Info" -> <<"I", "n", "f", "o">>
      [] str = "sales" -> <<"s", "a", "l", "e", "s">>
      [] str = "x%" -> <<"x", "%">>
      [] str = "a.b" -> <<"a", ".", "b">>
      [] str = "@acme.com" -> <<"@", "a", "c", "m", "e", ".", "c", "o", "m">>
      [] str = "@Acme.CO.uk" ->
            <<"@", "A", "c", "m", "e", ".", "C", "O", ".", "u", "k">>
      [] str = "@acme" -> <<"@", "a", "c", "m", "e">>
      [] str = "%40acme.com" ->
            <<"%", "4", "0", "a", "c", "m", "e", ".", "c", "o", "m">>
      [] str = "mailto:" -> <<"m", "a", "i", "l", "t", "o", ":">>
      [] str = "mailto%3a" -> <<"m", "a", "i", "l", "t", "o", "%", "3", "a">>

RawPrefixes ==
    {<<>>, <<"\"">>, <<" ">>, <<"\\">>, Pct22, Pct20,
     Chars("mailto:"), Chars("mailto%3a"), <<"\"">> \o Chars("mailto:")}

RawLocals ==
    {Chars(l) : l \in {"contact", "commercial", "5star", "Info", "sales",
                       "x%", "a.b"}}

RawDomains ==
    {Chars(d) : d \in {"@acme.com", "@Acme.CO.uk", "@acme", "%40acme.com"}}

RawSuffixes == {<<>>, <<"\"">>, <<" ">>, <<"\\">>, Pct22, <<">">>, <<"?", "x">>}

RawEmails ==
    {NULL, <<>>}
        \cup {p \o l \o d \o x : p \in RawPrefixes, l \in RawLocals,
                                 d \in RawDomains, x \in RawSuffixes}

InitClean ==
    /\ dnc = EmptyMap
    /\ pool = EmptyMap
    /\ now = 0
    /\ req \in [kind : {"cleanEmail"}, arg : RawEmails]
    /\ resp = [op |-> "none", ok |-> FALSE]
    /\ store = NoData
    /\ job = NoJob
    /\ ejob = NoJob
    /\ crawl = NoCrawl

NextClean == CleanEmail

SpecClean == InitClean /\ [][NextClean]_vars

----------------------------------------------------------------------------
(* Phone normalization over raw values *)

RawPhoneHeads == {<<>>, <<"+", "1", " ">>, <<"1", "-">>, <<"(">>, <<"x">>}

RawPhoneBodies ==
    {<<>>, PhoneDashedA, PhonePlainA, PhoneShort, PhoneNoDigit,
     D514 \o <<")", " ">> \o D555 \o <<".">> \o D0002}

RawPhoneTails == {<<>>, <<" ">>, <<" ", "x", "9">>, <<"-">>}

RawPhones ==
    {NULL} \cup NonStrings
        \cup {h \o b \o t : h \in RawPhoneHeads, b \in RawPhoneBodies,
                            t \in RawPhoneTails}

InitNormalize ==
    /\ dnc = EmptyMap
    /\ pool = EmptyMap
    /\ now = 0
    /\ req \in [kind : {"normalize"}, arg : RawPhones]
    /\ resp = [op |-> "none", ok |-> FALSE]
    /\ store = NoData
    /\ job = NoJob
    /\ ejob = NoJob
    /\ crawl = NoCrawl

NextNormalize == DNC_Normalize \/ Normalize

SpecNormalize == InitNormalize /\ [][NextNormalize]_vars

----------------------------------------------------------------------------
(* Email scoring over candidate lists *)

AtAcme == <<"@", "a", "c", "m", "e", ".", "c", "o", "m">>

EmailNoReply == <<"n", "o", "r", "e", "p", "l", "y">> \o AtAcme
EmailInfo == <<"i", "n", "f", "o">> \o AtAcme
\* jdoe1234567890123456789@acme.com
EmailJdoe ==
    <<"j", "d", "o", "e", "1", "2", "3", "4", "5", "6", "7", "8", "9", "0",
      "1", "2", "3", "4", "5", "6", "7", "8", "9">> \o AtAcme
\* a local part of 20 hex characters
EmailHex ==
    <<"a", "b", "c", "d", "e", "f", "0", "1", "2", "3", "4", "5", "6", "7",
      "8", "9", "a", "b", "c", "d">> \o AtAcme
\* neither of the site's domain nor of the priority list
EmailBob == <<"b", "o", "b", "@", "g", "m", "a", "i", "l", ".", "c", "o", "m">>
\* of the priority list, not of the site's domain
EmailSales ==
    <<"s", "a", "l", "e", "s", "@", "g", "m", "a", "i", "l", ".", "c", "o", "m">>

\* 100 characters, the longest email that is scored
EmailLongest == [i \in 1..91 |-> "x"] \o AtAcme
\* 101 characters
EmailTooLong == [i \in 1..92 |-> "x"] \o AtAcme
\* a local part of 31 characters, 5 of them digits
EmailLongLocal ==
    [i \in 1..26 |-> "y"] \o <<"1", "2", "3", "4", "5">> \o AtAcme
\* firstname.lastname@
EmailTwoNames == <<"a", "m", "y", ".", "r", "o", "y">> \o AtAcme

ScoreEmails ==
    {EmailNoReply, EmailInfo, EmailJdoe, EmailHex, EmailBob,
     EmailLongest, EmailTooLong, EmailLongLocal, EmailTwoNames}

\* Array.from(allEmails): the candidates come out of a Set, each once
DistinctSeqUpTo(S, n) ==
    {q \in SeqUpTo(S, n) : \A i, j \in 1..Len(q) : q[i] = q[j] => i = j}

SiteDomains == {NULL, SiteAcme, <<"w", "w", "w", ".">> \o SiteAcme}

InitScore ==
    /\ dnc = EmptyMap
    /\ pool = EmptyMap
    /\ now = 0
    /\ req \in [kind : {"score"}, arg : DistinctSeqUpTo(ScoreEmails, MaxEmails),
                domain : SiteDomains]
    /\ resp = [op |-> "none", ok |-> FALSE]
    /\ store = NoData
    /\ job = NoJob
    /\ ejob = NoJob
    /\ crawl = NoCrawl

NextScore == FilterAndScore

SpecScore == InitScore /\ [][NextScore]_vars

----------------------------------------------------------------------------
(* Email extraction over HTML texts *)

\* Info@Acme.COM
AddressInfoMixed == <<"I", "n", "f", "o", "@", "A", "c", "m", "e", ".", "C", "O", "M">>
\* contact@acme.com
AddressContact == <<"c", "o", "n", "t", "a", "c", "t", "@", "a", "c", "m", "e", ".", "c", "o", "m">>

HtmlAddresses == {AddressInfoMixed, EmailInfo, AddressContact, EmailSales}

HtmlHeads == {<<>>, <<"<", "a", " ", "h", "r", "e", "f", "=", "\"">>, <<"<", "p", ">">>}

HtmlLinks == {<<>>, MailtoText, <<"M", "A", "I", "L", "T", "O", ":">>}

HtmlMiddles == {<<"\"", ">">>, <<" ">>, <<"?", "s", "u", "b", "j", "e", "c", "t", "=", "x", "\"", ">">>}

HtmlSeconds == {<<>>, AddressInfoMixed, EmailInfo}

HtmlTails == {<<>>, <<"<", "/", "a", ">">>}

HtmlTexts ==
    {h \o l \o a \o m \o b \o t :
        h \in HtmlHeads, l \in HtmlLinks, a \in HtmlAddresses,
        m \in HtmlMiddles, b \in HtmlSeconds, t \in HtmlTails}

InitExtract ==
    /\ dnc = EmptyMap
    /\ pool = EmptyMap
    /\ now = 0
    /\ req \in [kind : {"extract"}, arg : HtmlTexts]
    /\ resp = [op |-> "none", ok |-> FALSE]
    /\ store = NoData
    /\ job = NoJob
    /\ ejob = NoJob
    /\ crawl = NoCrawl

NextExtract == ExtractEmails

SpecExtract == InitExtract /\ [][NextExtract]_vars

----------------------------------------------------------------------------
(* Crawls of websites *)

UrlNotAUrl == <<"n", "o", "t", " ", "a", " ", "u", "r", "l">>

CrawlUrls ==
    {NULL, <<>>, NumberA, SiteAcme, Https \o SiteAcme \o <<"/">>,
     Https \o SiteAcme \o ContactPaths[1], UrlNotAUrl}

\* the texts of the pages
\* amy@gmail.com
EmailAmy == <<"a", "m", "y", "@", "g", "m", "a", "i", "l", ".", "c", "o", "m">>

PageTexts ==
    {<<>>,
     MailtoText \o AddressInfoMixed \o <<"\"">>,
     EmailNoReply \o <<" ">> \o EmailBob,
     EmailAmy \o <<" ">> \o EmailBob,
     EmailNoReply}

FetchFailed == <<"f", "e", "t", "c", "h", " ", "f", "a", "i", "l", "e", "d">>
Terminated == <<"t", "e", "r", "m", "i", "n", "a", "t", "e", "d">>

\* error.message of what fetch and response.text() throw
ErrorMessages == {FetchFailed, Terminated}

InitCrawl ==
    /\ dnc = EmptyMap
    /\ pool = EmptyMap
    /\ now = 0
    /\ req = NoReq
    /\ resp = [op |-> "none", ok |-> FALSE]
    /\ store = NoData
    /\ job = NoJob
    /\ ejob = NoJob
    /\ crawl = NoCrawl

NextCrawl ==
    \/ \E url \in CrawlUrls : StartCrawl(url)
    \/ \E html \in PageTexts : FetchOk(html)
    \/ FetchNotOk
    \/ FetchTimeout
    \/ \E message \in ErrorMessages : FetchError(message)
    \/ PageDelayDone

SpecCrawl == InitCrawl /\ [][NextCrawl]_vars

----------------------------------------------------------------------------
(* Claims about the DNC registry *)

IsTenDigits(k) == Len(k) = KeyLen /\ \A i \in 1..Len(k) : k[i] \in Digits

\* C7: every key of the persisted DNC phones mapping is a 10-digit string
\* (a phone with fewer than 10 digits is never stored as a key).
C7_DncKeysAreTenDigits == \A k \in DOMAIN dnc : IsTenDigits(k)

\* a phone normalizes when it is a string holding at least one digit
Normalizes(phone) == phone /= NULL /\ \E i \in 1..Len(phone) : phone[i] \in Digits

\* what an add of (phone, reason, source) at time now must have done
AddContract(phone, reason, source, key) ==
    IF ~Normalizes(phone)
    THEN resp'.ok = FALSE /\ dnc' = dnc
    ELSE /\ resp'.ok = TRUE
         /\ DOMAIN dnc' = (DOMAIN dnc) \cup {key}
         /\ dnc'[key] = [originalPhone |-> phone, reason |-> reason,
                         source |-> source, addedAt |-> now]
         /\ \A k \in (DOMAIN dnc) \ {key} : dnc'[k] = dnc[k]

\* C10: DNC add returns false, leaving the registry unchanged, only when the
\* phone fails to normalize; otherwise it returns true, the registry then
\* holds the entry of the latest add under that key (reason, source, addedAt
\* replaced), and the entries of all other keys are unchanged.
C10_AddLastWriteWins ==
    [][
        /\ resp'.op = "DNC.add" =>
              \A p \in AddInputs, a \in AddArgs :
                DNC_add(p, a[1], a[2])
                    => AddContract(p, a[1], a[2], DNC_normalizePhone(p))
        /\ resp'.op = "POST /api/dnc/add" =>
              \A p \in AddInputs, r \in Reasons :
                DncAddRoute(p, r) => AddContract(p, r, "manual", normalizePhone(p))
    ]_vars

\* an add has just replaced the entry of one key while another key is stored
C10_Witness ==
    /\ resp = [op |-> "DNC.add", ok |-> TRUE]
    /\ KeyA \in DOMAIN dnc /\ KeyB \in DOMAIN dnc
    /\ dnc[KeyB].addedAt = 0 /\ dnc[KeyB].source = "manual"
    /\ dnc[KeyA] = [originalPhone |-> PhoneDashedA, reason |-> "Manual add",
                     source |-> "import", addedAt |-> 1]

----------------------------------------------------------------------------
(* Claims about the lead pool *)

\* C2: the pool entry of a key holds the leadId, campaign and firstSeenAt of
\* the first track call for that key: no later operation changes or removes
\* an entry that is present.
C2_FirstTrackKept ==
    [][\A k \in DOMAIN pool : k \in DOMAIN pool' /\ pool'[k] = pool[k]]_vars

----------------------------------------------------------------------------
(* Claims about batch validation *)

Validated == resp.op \in {"filterBatch", "POST /api/leads/validate"}

\* the leads of a bucket whose entries wrap the lead
LeadsOf(entries) == {entries[i].lead : i \in 1..Len(entries)}

Elems(seq) == {seq[i] : i \in 1..Len(seq)}

DuplicateLeads ==
    IF resp.op = "filterBatch" THEN Elems(resp.duplicates)
    ELSE LeadsOf(resp.duplicates)

PhoneKey(phone) == SliceLast(StripNonDigits(phone), KeyLen)

\* the phone is blocked: it has a PhoneKey (10 digits) that the registry holds
Blocked(phone) ==
    /\ Normalizes(phone)
    /\ Len(PhoneKey(phone)) = KeyLen
    /\ PhoneKey(phone) \in DOMAIN dnc

\* the phone has fewer than 10 digits, and the registry holds those digits
ShortBlocked(phone) ==
    /\ Normalizes(phone)
    /\ Len(PhoneKey(phone)) < KeyLen
    /\ PhoneKey(phone) \in DOMAIN dnc

\* the lead is in invalid with a reason that refers to the DNC list
InvalidForDnc(lead) ==
    /\ resp.op = "filterBatch"
    /\ \E i \in 1..Len(resp.invalid) :
         /\ resp.invalid[i].lead = lead
         /\ "Phone is on DNC list" \in Elems(resp.invalid[i].errors)

\* C4 as stated: validateBatch places a lead whose phone is blocked in the
\* DNC registry in the invalid bucket with a reason referencing DNC, never in
\* valid or duplicates, whether or not the number is also in the lead pool.
C4_BlockedIsInvalid ==
    Validated =>
        \A lead \in Elems(resp.leads) :
            Blocked(lead.phone) =>
                /\ lead \notin Elems(resp.valid)
                /\ lead \notin DuplicateLeads
                /\ InvalidForDnc(lead)

\* C4 as amended: a lead whose phone is blocked is never in valid or in
\* duplicates, whether or not the number is also in the lead pool;
\* LeadValidator.filterBatch puts it in invalid with the error 'Phone is on
\* DNC list'; POST /api/leads/validate puts it in its own dnc bucket, not in
\* invalid, with the reason of the registry entry.  (A phone of fewer than 10
\* digits whose digits the registry holds is invalid in both: with the DNC
\* error in filterBatch, with 'Invalid phone format' in the route.)
C4_BlockedIsRejected ==
    Validated =>
        \A lead \in Elems(resp.leads) :
            /\ Blocked(lead.phone) =>
                /\ lead \notin Elems(resp.valid)
                /\ lead \notin DuplicateLeads
                /\ resp.op = "filterBatch" => InvalidForDnc(lead)
                /\ resp.op = "POST /api/leads/validate" =>
                     /\ [lead |-> lead, reason |-> dnc[PhoneKey(lead.phone)].reason]
                            \in Elems(resp.dnc)
                     /\ lead \notin LeadsOf(resp.invalid)
            /\ ShortBlocked(lead.phone) =>
                /\ lead \notin Elems(resp.valid)
                /\ lead \notin DuplicateLeads
                /\ resp.op = "filterBatch" => InvalidForDnc(lead)
                /\ resp.op = "POST /api/leads/validate" =>
                     /\ [lead |-> lead, reason |-> "Invalid phone format"]
                            \in Elems(resp.invalid)
                     /\ lead \notin LeadsOf(resp.dnc)

\* the route has answered for a batch holding a lead whose number is both
\* blocked and in the lead pool, and has put it in the dnc bucket
C4_Witness ==
    /\ resp.op = "POST /api/leads/validate"
    /\ LeadA \in Elems(resp.leads)
    /\ Blocked(LeadA.phone)
    /\ KeyA \in DOMAIN pool
    /\ LeadA \in LeadsOf(resp.dnc)

\* C5: for a batch of two leads whose phones have the same PhoneKey in
\* different formatting, with the DNC registry and the lead pool empty,
\* validateBatch yields exactly one valid lead (the first) and reports the
\* other one as a duplicate.
C5_SameNumberTwice ==
    ( /\ Validated
      /\ dnc = EmptyMap /\ pool = EmptyMap
      /\ Len(resp.leads) = 2
      /\ \A i \in 1..2 : Truthy(resp.leads[i].name) /\ Normalizes(resp.leads[i].phone)
      /\ resp.leads[1].phone /= resp.leads[2].phone
      /\ Len(PhoneKey(resp.leads[1].phone)) = KeyLen
      /\ PhoneKey(resp.leads[1].phone) = PhoneKey(resp.leads[2].phone) )
    => /\ resp.valid = <<resp.leads[1]>>
       /\ DuplicateLeads = {resp.leads[2]}

----------------------------------------------------------------------------
(* Claims about scraping jobs *)

\* the step in which a scraping job leaves its loop: it filters its leads
\* and, when any is left, hands them to addLeadsToLocal
JobHandsOver == job.status = "running" /\ job'.status = "completed"

\* C1: at the moment a scraping job (runScrapingJob or runBroadScrapingJob)
\* hands its leads to addLeadsToLocal, no lead of that set has a phone that
\* is blocked in the DNC registry or already present in the lead pool.
C1_HandedLeadsAreFresh ==
    [][JobHandsOver =>
          \A i \in 1..Len(job'.leads) :
              /\ ~DNC_isBlocked(dnc, job'.leads[i].phone)
              /\ ~LeadPool_exists(pool, job'.leads[i].phone)]_vars

\* the positions of seq holding a lead of the same PhoneKey as seq[i]
SameKeyAs(seq, i) ==
    {j \in 1..Len(seq) : PhoneKey(seq[j].phone) = PhoneKey(seq[i].phone)}

\* kept is scraped with some positions left out, the order unchanged
IsSubSeq(kept, scraped) ==
    \E pos \in [1..Len(kept) -> 1..Len(scraped)] :
        /\ \A a, b \in 1..Len(kept) : a < b => pos[a] < pos[b]
        /\ \A a \in 1..Len(kept) : kept[a] = scraped[pos[a]]

\* C6: after the same-job dedup pass no two leads left in the job have phones
\* with the same PhoneKey; of each such group the lead kept is the one that
\* was discovered first, and the relative order of the kept leads is
\* unchanged.
C6_OnePerPhoneKey ==
    job.status = "completed" =>
        /\ \A i \in 1..Len(job.leads) : SameKeyAs(job.leads, i) = {i}
        /\ \A i \in 1..Len(job.scraped) :
              (\A j \in SameKeyAs(job.scraped, i) : i <= j)
                  => \E k \in 1..Len(job.leads) : job.leads[k] = job.scraped[i]
        /\ IsSubSeq(job.leads, job.scraped)

\* C8: once a scraping job has persisted its leads, the PhoneKey of every
\* persisted lead is registered in the lead pool, so that exists answers true
\* for each of those phones in every later state.
C8_PersistedLeadsArePooled ==
    job.status = "completed" =>
        \A i \in 1..Len(store.leads) :
            LeadPool_exists(pool, store.leads[i].phone)

----------------------------------------------------------------------------
(* Claims about the lead store *)

\* the stored lead is in the document
StillStored(lead, data) ==
    \E j \in 1..Len(data.leads) :
        /\ data.leads[j].id = lead.id
        /\ data.leads[j].phone = lead.phone
        /\ data.leads[j].campaignId = lead.campaignId

\* C3: a lead that is in the local store stays in it in every reachable
\* state until its campaign is explicitly deleted; in particular a lead
\* inserted while an email-extraction job is running is still stored after
\* that job has written its results back.
C3_StoredLeadStays ==
    [][\A i \in 1..Len(store.leads) :
          \/ StillStored(store.leads[i], store')
          \/ DeleteCampaign(store.leads[i].campaignId)]_vars

----------------------------------------------------------------------------
(* Claims about email cleaning *)

\* the whole of s is one address local@domain.tld
WellFormed(s) ==
    /\ s /= NULL
    /\ \E at \in 2..Len(s) :
         /\ s[at] = "@"
         /\ \A i \in 1..(at - 1) : s[i] \in LocalChars
         /\ \A i \in (at + 1)..Len(s) : s[i] \in DomainChars
         /\ \E dot \in (at + 2)..(Len(s) - 2) :
              /\ s[dot] = "."
              /\ \A i \in (dot + 1)..Len(s) : s[i] \in Letters

\* C9: the email cleaning step removes from the start and the end of a raw
\* match only quote, backslash and whitespace characters and a mailto:
\* prefix: cleaning a raw match that is already a well-formed address (such
\* as contact@acme.com, commercial@acme.com or 5star@acme.com) returns that
\* same address lower-cased, with no character of its local part removed.
C9_WellFormedIsKept ==
    (resp.op = "cleanEmail" /\ WellFormed(req.arg))
        => resp.email = toLowerCase(req.arg)

----------------------------------------------------------------------------
(* Claims about the algebra of the DNC registry *)

\* the PhoneKey of each phone that normalizes, NULL for the others
KeyOf == [p \in PhoneInputs |-> IF Normalizes(p) THEN PhoneKey(p) ELSE NULL]

\* the phones with the PhoneKey of p: p and its formatting variants
Variants ==
    [p \in PhoneInputs |->
        {q \in PhoneInputs : KeyOf[q] /= NULL /\ KeyOf[q] = KeyOf[p]}]

\* the entries of all keys but p's are there, or not there, as before the
\* step, so that isBlocked answers as before for the phones of other keys
OthersAsBefore(p) ==
    \A k \in ((DOMAIN dnc) \cup (DOMAIN dnc')) \ {KeyOf[p]} :
        (k \in DOMAIN dnc) = (k \in DOMAIN dnc')

\* C11: for a phone that normalizes, and whatever is done to other keys in
\* between, after add isBlocked answers true for the phone and for every
\* formatting variant with the same PhoneKey, after remove it answers false;
\* remove returns true exactly when an entry for the key existed.
C11_AddRemoveAlgebra ==
    [][
        /\ resp'.op = "DNC.add" =>
              \A p \in AddInputs, a \in AddArgs :
                DNC_add(p, a[1], a[2]) =>
                    /\ \A q \in Variants[p] : DNC_isBlocked(dnc', q)
                    /\ OthersAsBefore(p)
        /\ resp'.op = "POST /api/dnc/add" =>
              \A p \in AddInputs, r \in Reasons :
                DncAddRoute(p, r) =>
                    /\ \A q \in Variants[p] : DNC_isBlocked(dnc', q)
                    /\ OthersAsBefore(p)
        /\ resp'.op = "DNC.remove" =>
              \A p \in PhoneInputs :
                DNC_remove(p) =>
                    /\ \A q \in Variants[p] : ~DNC_isBlocked(dnc', q)
                    /\ KeyOf[p] /= NULL => resp'.ok = (KeyOf[p] \in DOMAIN dnc)
                    /\ OthersAsBefore(p)
        /\ resp'.op = "DELETE /api/dnc/:phone" =>
              \A p \in PhoneInputs :
                DncDeleteRoute(p) =>
                    /\ \A q \in Variants[p] : ~DNC_isBlocked(dnc', q)
                    /\ KeyOf[p] /= NULL => resp'.ok = (KeyOf[p] \in DOMAIN dnc)
                    /\ OthersAsBefore(p)
        /\ resp'.op = "DNC.isBlocked" =>
              \A q \in PhoneInputs :
                (DNC_check(q) /\ KeyOf[q] /= NULL)
                    => resp'.ok = (KeyOf[q] \in DOMAIN dnc)
        /\ resp'.op = "POST /api/dnc/check" =>
              \A q \in PhoneInputs :
                (DncCheckRoute(q) /\ KeyOf[q] /= NULL)
                    => resp'.ok = (KeyOf[q] \in DOMAIN dnc)
    ]_vars

\* a remove has just answered true for a key that was added under another
\* formatting, while an entry of another key is still stored
C11_Witness ==
    /\ resp = [op |-> "DNC.remove", ok |-> TRUE]
    /\ KeyA \notin DOMAIN dnc
    /\ KeyB \in DOMAIN dnc
    /\ ~DNC_isBlocked(dnc, PhonePlusA)
    /\ DNC_isBlocked(dnc, PhoneB)

----------------------------------------------------------------------------
(* Claims about phone normalization *)

\* the digits of a text, in order
DigitsIn(raw) == SelectSeq(raw, LAMBDA c : c \in Digits)

\* the last ten of them
LastTen(digits) ==
    IF Len(digits) <= 10 THEN digits
    ELSE [i \in 1..10 |-> digits[Len(digits) - 10 + i]]

\* C12: normalize(raw) returns exactly the last 10 digits of raw after every
\* non-digit character is removed, returns null when raw is empty or null or
\* when nothing remains after stripping, and never throws for any input.
C12_NormalizeIsTotal ==
    resp.op \in {"DNC.normalizePhone", "normalizePhone"} =>
        /\ ~resp.threw
        /\ req.arg \notin NonStrings =>
              resp.value = IF req.arg = NULL \/ DigitsIn(req.arg) = <<>>
                           THEN NULL
                           ELSE LastTen(DigitsIn(req.arg))

----------------------------------------------------------------------------
(* Claims about the name and address match of the dedup pass *)

\* C13: in the same-job dedup pass the lowercase (name, address) match is
\* applied only to phone-less records: two leads of one job that have
\* different phone numbers but the same name and address are both kept.
\* (Every lead of a job has a phone; when no two of them have the same
\* PhoneKey, the pass removes none.)
C13_NameMatchOnlyWithoutPhone ==
    ( /\ job.status = "completed"
      /\ \A i \in 1..Len(job.scraped) : SameKeyAs(job.scraped, i) = {i} )
    => job.leads = job.scraped

----------------------------------------------------------------------------
(* Claims about leads with missing fields *)

\* the lead is in invalid, with a reason
InvalidWithReason(lead) ==
    \E i \in 1..Len(resp.invalid) :
        /\ resp.invalid[i].lead = lead
        /\ IF resp.op = "filterBatch"
           THEN resp.invalid[i].errors /= <<>>
           ELSE resp.invalid[i].reason /= ""

\* the number of leads the answer has classified
Classified ==
    Len(resp.valid) + Len(resp.invalid) + Len(resp.duplicates)
        + (IF resp.op = "filterBatch" THEN 0 ELSE Len(resp.dnc))

\* C14: validateBatch reports every lead that lacks a name or lacks a phone
\* as invalid with a stated reason, and goes on to classify every remaining
\* lead of the batch (one invalid lead never stops the batch).
C14_MissingFieldIsInvalid ==
    Validated =>
        /\ \A lead \in Elems(resp.leads) :
              (~Truthy(lead.name) \/ ~Truthy(lead.phone)) =>
                  /\ InvalidWithReason(lead)
                  /\ lead \notin Elems(resp.valid)
                  /\ lead \notin DuplicateLeads
        /\ Classified = Len(resp.leads)

----------------------------------------------------------------------------
(* Claims about email scoring *)

\* the positions of the answer that hold the email
RankOf(email) ==
    {i \in 1..Len(resp.scored) : resp.scored[i].email = email}

\* C19: scoring the candidates noreply@acme.com, info@acme.com and
\* jdoe1234567890123456789@acme.com for the site domain acme.com drops the
\* first and the third candidate, and ranks info@acme.com above every
\* candidate that neither matches the domain nor the priority list.
C19_ScoringExample ==
    ( /\ resp.op = "filterAndScoreEmails"
      /\ req.domain = SiteAcme
      /\ {EmailNoReply, EmailInfo, EmailJdoe} \subseteq Elems(req.arg) )
    => /\ RankOf(EmailNoReply) = {}
       /\ RankOf(EmailJdoe) = {}
       /\ RankOf(EmailInfo) /= {}
       /\ \A i \in 1..Len(resp.scored) :
             ( /\ ~DomainMatches(resp.scored[i].email, req.domain)
               /\ ~Priority(resp.scored[i].email) )
                 => \A r \in RankOf(EmailInfo) : r < i

----------------------------------------------------------------------------
(* Claims about email extraction *)

\* the addresses of HtmlAddresses that the text holds behind mailto:
MailtoLinked(html) ==
    {a \in HtmlAddresses :
        \E i \in Occurrences(toLowerCase(html), MailtoText \o toLowerCase(a)) :
            i + Len(MailtoText) + Len(a) > Len(html)
            \/ html[i + Len(MailtoText) + Len(a)] \in {"\"", " ", "?"}}

\* C20: extraction from HTML that contains a mailto: link yields the
\* address lower-cased and without the mailto: prefix (mailto:Info@Acme.COM
\* gives info@acme.com), and the result contains each cleaned address once,
\* even when both passes match it or it occurs several times.
C20_MailtoLowerCasedOnce ==
    resp.op = "extractEmailsFromHTML"
    => /\ \A a \in MailtoLinked(req.arg) :
             \E i \in 1..Len(resp.emails) : resp.emails[i] = toLowerCase(a)
       /\ \A i \in 1..Len(resp.emails) :
             ~StartsWith(resp.emails[i], MailtoText)
       /\ \A i, j \in 1..Len(resp.emails) :
             resp.emails[i] = resp.emails[j] => i = j

\* every address is answered once, and the mixed-case link is answered
\* lower-cased in first place
ExtractedOnce ==
    resp.op = "extractEmailsFromHTML"
    => /\ \A i, j \in 1..Len(resp.emails) :
             resp.emails[i] = resp.emails[j] => i = j
       /\ (AddressInfoMixed \in MailtoLinked(req.arg)
             => resp.emails[1] = EmailInfo)

----------------------------------------------------------------------------
(* Claims about the crawl of a website *)

\* the crawl fetched, or is fetching, pages
Crawling == crawl.status \in {"running", "returned"} /\ crawl.pages /= <<>>

\* the crawl has returned behind its loop
CrawlReturned == crawl.status = "returned" /\ crawl.pages /= <<>>

\* the pages, in order, whose fetch threw
ThrownPages ==
    SelectSeq([i \in 1..Len(crawl.outcomes) |-> i],
              LAMBDA i : crawl.outcomes[i] \in {"timeout", "error"})

\* the error entries of the crawl, as collected or as returned
ErrorsOf ==
    IF crawl.status = "running" THEN crawl.errors
    ELSE IF crawl.result.errors = NULL THEN <<>>
    ELSE crawl.result.errors

\* no page answered 2xx
AllPagesFailed == \A i \in 1..Len(crawl.outcomes) : crawl.outcomes[i] /= "ok"

\* only a URL that is no string makes crawlWebsite throw, before any fetch
NeverThrowsInLoop ==
    crawl.status = "threw" => (crawl.url \in NonStrings /\ crawl.pages = <<>>)

\* C15 as stated: when all pages of a crawl fail (each by timeout,
\* connection error or non-2xx response), crawl does not throw but returns
\* bestEmail null and a populated (non-null, non-empty) errors list.
C15_TotalFailureHasErrors ==
    /\ NeverThrowsInLoop
    /\ (CrawlReturned /\ AllPagesFailed)
          => /\ crawl.result.bestEmail = NULL
             /\ crawl.result.errors /= NULL
             /\ crawl.result.errors /= <<>>

\* C15, amended: when all pages of a crawl fail, crawl does not throw but
\* returns bestEmail null; its errors list holds one entry for every page
\* that failed by timeout or thrown error and is populated when there is
\* such a page, and it is null when every page answered non-2xx.
C15_TotalFailureReportsThrownPages ==
    /\ NeverThrowsInLoop
    /\ (CrawlReturned /\ AllPagesFailed)
          => /\ crawl.result.bestEmail = NULL
             /\ IF ThrownPages /= <<>>
                THEN /\ crawl.result.errors /= NULL
                     /\ Len(crawl.result.errors) = Len(ThrownPages)
                ELSE crawl.result.errors = NULL

\* a crawl of three pages that all failed, by timeout and by thrown error
C15_Witness ==
    /\ CrawlReturned
    /\ crawl.outcomes = <<"timeout", "error", "error">>
    /\ crawl.result.bestEmail = NULL
    /\ Len(crawl.result.errors) = 3

\* C16: a crawl in which every fetched page returns a non-2xx response
\* returns bestEmail null and totalFound 0, and no error entry is recorded
\* for a page that answered non-2xx.
C16_NonOkIsSilent ==
    /\ Crawling => Len(ErrorsOf) = Len(ThrownPages)
    /\ (CrawlReturned
          /\ \A i \in 1..Len(crawl.outcomes) : crawl.outcomes[i] = "status")
          => /\ crawl.result.bestEmail = NULL
             /\ crawl.result.totalFound = 0
             /\ crawl.result.errors = NULL

\* a crawl of three pages that all answered non-2xx
C16_Witness ==
    /\ CrawlReturned
    /\ crawl.outcomes = <<"status", "status", "status">>
    /\ crawl.result.totalFound = 0

\* the texts "Timeout on <url>" of the pages of the crawl
TimeoutTexts == {TimeoutText(crawl.pages[i]) : i \in 1..Len(crawl.pages)}

\* C17: when the fetch of a page times out, the crawl records the text
\* "Timeout on <url>" for that page, a text unlike that of any other fetch
\* error, and still attempts every remaining page of its page list; a
\* timeout on the root page is among the returned errors.
C17_TimeoutIsRecordedAndPassed ==
    /\ Crawling =>
          /\ Len(ErrorsOf) = Len(ThrownPages)
          /\ \A j \in 1..Len(ThrownPages) :
                IF crawl.outcomes[ThrownPages[j]] = "timeout"
                THEN ErrorsOf[j] = TimeoutText(crawl.pages[ThrownPages[j]])
                ELSE ErrorsOf[j] \notin TimeoutTexts
          /\ crawl.pages = PagesToCheck(NormalizedUrl(crawl.url))
    /\ CrawlReturned =>
          /\ Len(crawl.outcomes) = Len(crawl.pages)
          /\ (crawl.outcomes[1] = "timeout"
                => /\ crawl.result.errors /= NULL
                   /\ crawl.result.errors[1] = TimeoutText(crawl.pages[1]))

\* the root page timed out, the second page threw, the third was read
C17_Witness ==
    /\ CrawlReturned
    /\ crawl.outcomes = <<"timeout", "error", "ok">>
    /\ crawl.result.errors[1] = TimeoutText(NormalizedUrl(crawl.url))
    /\ Len(crawl.result.errors) = 2

----------------------------------------------------------------------------
(* Claims about failed searches of a scraping job *)

\* every location, or every pair of location and category, was searched
AllSearched ==
    IF job.mode = "all_businesses"
    THEN job.completedOperations = job.n * MaxCategories
    ELSE job.i = job.n

\* the job has a failed search among its errors
HasFailedSearch ==
    job.status \in {"running", "completed"} /\ job.errors /= <<>>

\* C18: a search failure for one location, or one pair of location and
\* category, is recorded in the job's errors and does not abort the job:
\* every remaining location and category is still searched, and the job
\* eventually is 'completed' with progress 100.
C18_FailedSearchDoesNotAbort ==
    HasFailedSearch
        ~> ( /\ job.status = "completed"
             /\ job.progress = 100
             /\ job.errors /= <<>>
             /\ AllSearched )

\* the search of the first location failed, a later search gave a lead, and
\* the job is completed
C18_Witness ==
    /\ job.status = "completed"
    /\ job.progress = 100
    /\ job.n >= 2
    /\ job.errors = << <<0, 0>> >>
    /\ job.scraped /= <<>>
    /\ AllSearched

----------------------------------------------------------------------------
(* Claims about the scorer's filter and its scores *)

\* the candidate passes the filter: at most 100 characters, no skip pattern
Survives(email) == Len(email) <= 100 /\ ~Skipped(email)

\* C25: every entry of the list returned by the scorer is at most 100
\* characters long and matches no skip pattern, and every input candidate
\* that is within the length limit and matches no skip pattern is in the
\* output exactly once.
C25_FilterKeepsExactlyTheSurvivors ==
    resp.op = "filterAndScoreEmails"
    => /\ \A i \in 1..Len(resp.scored) : Survives(resp.scored[i].email)
       /\ \A k \in 1..Len(req.arg) :
             Survives(req.arg[k])
                => Cardinality(RankOf(req.arg[k])) = 1

\* a candidate of 101 characters and a skipped one are dropped, one of 100
\* characters is kept
C25_Witness ==
    /\ resp.op = "filterAndScoreEmails"
    /\ {EmailTooLong, EmailNoReply, EmailLongest} \subseteq Elems(req.arg)
    /\ Len(resp.scored) = 1
    /\ resp.scored[1].email = EmailLongest

\* the text of the email in front of its @
LocalPartOf(email) == SubSeq(email, 1, PrefixRun(email, LocalChars))

\* the text of the email behind its @
DomainPartOf(email) ==
    SubSeq(email, PrefixRun(email, LocalChars) + 2, Len(email))

\* the first label of the website's domain, www. set aside
RootLabel(domain) ==
    LET bare == IF StartsWith(domain, <<"w", "w", "w", ".">>)
                THEN SubSeq(domain, 5, Len(domain)) ELSE domain
    IN  SubSeq(bare, 1, PrefixRun(bare, DomainChars \ {"."}))

\* the number of digits of a text
DigitCount(text) == Cardinality({i \in 1..Len(text) : text[i] \in Digits})

\* the score the rules give to a surviving candidate
RuleScore(email, domain) ==
    50
    + (IF domain /= NULL
          /\ Occurrences(DomainPartOf(email), RootLabel(domain)) /= {}
       THEN 30 ELSE 0)
    + (IF Priority(email) THEN 20 ELSE 0)
    - (IF Len(LocalPartOf(email)) > 30 THEN 20 ELSE 0)
    - (IF DigitCount(LocalPartOf(email)) > 4 THEN 15 ELSE 0)

\* C26: the score of each surviving candidate is exactly 50, plus 30 if the
\* email's domain contains the website's root label, plus 20 once if the
\* local part matches a priority pattern, minus 20 if the local part is
\* longer than 30 characters, minus 15 if the local part has more than 4
\* digits; hence every score lies in 15..100.
C26_ScoreFollowsTheRules ==
    resp.op = "filterAndScoreEmails"
    => \A i \in 1..Len(resp.scored) :
          /\ resp.scored[i].score
                = RuleScore(resp.scored[i].email, req.domain)
          /\ resp.scored[i].score \in 15..100

\* the highest score, the lowest score and one with a single penalty
C26_Witness ==
    /\ resp.op = "filterAndScoreEmails"
    /\ req.arg = <<EmailLongLocal, EmailInfo, EmailJdoe>>
    /\ req.domain = NULL
    /\ resp.scored = <<[email |-> EmailInfo, score |-> 70],
                       [email |-> EmailJdoe, score |-> 35],
                       [email |-> EmailLongLocal, score |-> 15]>>

----------------------------------------------------------------------------
(* Claims about the order of the scored list and the best email *)

\* the place of the email in the order of discovery
FoundAt(email) == CHOOSE k \in 1..Len(crawl.found) : crawl.found[k] = email

\* C27: the scorer's output is ordered by score descending, candidates of
\* equal score keep their order of discovery, and the crawl's bestEmail is
\* the email of the first entry of that list, null exactly when the list is
\* empty (even if totalFound is positive).
C27_BestEmailHeadsTheStableOrder ==
    CrawlReturned =>
        LET emails == crawl.result.emails
        IN  /\ \A i, j \in 1..Len(emails) :
                  i < j =>
                     \/ emails[i].score > emails[j].score
                     \/ /\ emails[i].score = emails[j].score
                        /\ FoundAt(emails[i].email) < FoundAt(emails[j].email)
            /\ crawl.result.bestEmail
                  = (IF emails = <<>> THEN NULL ELSE emails[1].email)
            /\ crawl.result.bestEmail /= <<>>
            /\ crawl.result.totalFound = Len(crawl.found)

\* three addresses found, one skipped, the other two of equal score in the
\* order of their discovery
C27_Witness ==
    /\ CrawlReturned
    /\ crawl.found = <<EmailNoReply, EmailBob, EmailAmy>>
    /\ crawl.result.totalFound = 3
    /\ crawl.result.emails = <<[email |-> EmailBob, score |-> 50],
                               [email |-> EmailAmy, score |-> 50]>>
    /\ crawl.result.bestEmail = EmailBob

\* all that was found is skipped: totalFound is positive, bestEmail is null
NothingScored ==
    /\ CrawlReturned
    /\ crawl.result.totalFound = 1
    /\ crawl.result.emails = <<>>
    /\ crawl.result.bestEmail = NULL

----------------------------------------------------------------------------
(* Claims about the pages of a crawl *)

\* the pages fetched so far, the one in flight included
FetchedPages ==
    IF crawl.status = "running" THEN SubSeq(crawl.pages, 1, crawl.k)
    ELSE crawl.pages

\* C28: a crawl fetches at most 3 pages: the normalized root URL first and
\* always, then the contact paths in listed order (/contact, then
\* /contact-us), each page fetched at most once, and a fetch starts only
\* after the fetch of the page before it has ended.
C28_ThreePagesEachOnce ==
    Crawling =>
        /\ Len(FetchedPages) \in 1..3
        /\ FetchedPages[1] = NormalizedUrl(crawl.url)
        /\ \A i \in 2..Len(FetchedPages) :
              FetchedPages[i]
                 = Https \o getDomain(NormalizedUrl(crawl.url)) \o ContactPaths[i - 1]
        /\ \A i, j \in 1..Len(FetchedPages) :
              FetchedPages[i] = FetchedPages[j] => i = j
        /\ Len(crawl.outcomes) \in {Len(FetchedPages) - 1, Len(FetchedPages)}

----------------------------------------------------------------------------
(* Claims about call outcomes *)

\* C24: whenever the call-outcome operation answers addedToDnc true, the
\* given phone is blocked in the DNC registry afterwards; and an outcome
\* that is not negative (interested, no_answer, voicemail, callback) leaves
\* the DNC registry unchanged.
C24_AddedToDncMeansBlocked ==
    [][
        resp'.op = "POST /api/leads/outcome" =>
            \A p \in OutcomeInputs, o \in Outcomes :
                LeadsOutcomeRoute(p, o) =>
                    /\ resp'.ok => DNC_isBlocked(dnc', p)
                    /\ ~OutcomeAddToDnc(o) => dnc' = dnc
    ]_vars

----------------------------------------------------------------------------
(* Claims about the pacing of a scraping job *)

\* a search of the job is awaited
Searching == job.status = "running" /\ job.pc = "search"

\* C21: within a scraping job every search call, whether it succeeded or
\* failed, is followed by the fixed delay before the next search call of
\* that job starts: a step never leads from one awaited search straight to
\* the next awaited search.
C21_DelayBehindEverySearch ==
    [][ Searching => ~Searching' ]_vars

----------------------------------------------------------------------------
(* Claims about the ids of stored leads *)

\* C22: every lead in the lead store has an id different from the id of
\* every other stored lead, after any sequence of scraping jobs, also when
\* the same business (same place_id) is persisted by two jobs or campaigns.
C22_StoredIdsAreDistinct ==
    \A i, j \in 1..Len(store.leads) :
        store.leads[i].id = store.leads[j].id => i = j

----------------------------------------------------------------------------
(* Claims about deleted campaigns *)

\* neither the campaign nor a lead of the campaign is in the document
Absent(id, data) ==
    /\ \A i \in 1..Len(data.campaigns) : data.campaigns[i].id /= id
    /\ \A i \in 1..Len(data.leads) : data.leads[i].campaignId /= id

\* C23: after a campaign is deleted, neither the campaign nor any lead
\* carrying its campaignId is in the lead store in any later state, under
\* any interleaving with a bulk email-extraction job that was running when
\* the deletion happened, short of a later scraping job inserting leads: a
\* campaign that is absent comes into the store by a step of a scraping job
\* only.
C23_DeletedCampaignStaysDeleted ==
    [][ \A id \in 0..MaxClock :
           (Absent(id, store) /\ ~Absent(id, store')) => job' /= job ]_vars

----------------------------------------------------------------------------
(* Claims about the count of leads of a campaign *)

\* the number of stored leads of the campaign
CampaignSize(id, data) ==
    Cardinality({i \in 1..Len(data.leads) : data.leads[i].campaignId = id})

\* C29: after any sequence of lead insertions (addLeadsToLocal) and campaign
\* deletions, the leadsCount of every stored campaign equals the number of
\* stored leads whose campaignId is the id of the campaign.
C29_LeadsCountIsTheNumberOfLeads ==
    \A i \in 1..Len(store.campaigns) :
        store.campaigns[i].leadsCount
            = CampaignSize(store.campaigns[i].id, store)

----------------------------------------------------------------------------
(* Claims about the counters of the email extraction *)

\* the document the job holds: the one it loaded while it runs, the one it
\* saved afterwards
Held(e, data) == IF e.status = "running" THEN e.data ELSE data

EmailCounters ==
    ejob.status \in {"running", "completed"} =>
        /\ ejob.processed <= Len(ejob.ids)
        /\ ejob.extracted + ejob.failed <= ejob.processed
        /\ ejob.status = "completed" =>
              /\ ejob.processed = Len(ejob.ids)
              /\ Len(ejob.results) = Len(ejob.ids)
              /\ \A k \in 1..Len(ejob.ids) :
                    ejob.results[k].leadId = ejob.ids[k]
        /\ (ejob.status = "running" /\ ejob.pc = "crawl") =>
              ~Truthy(CurrentLead.email)

EmailKept ==
    \A i \in 1..Len(Held(ejob, store).leads) :
        Truthy(Held(ejob, store).leads[i].email) =>
            /\ i <= Len(Held(ejob', store').leads)
            /\ Held(ejob', store').leads[i].email
                  = Held(ejob, store).leads[i].email

\* C30: in a bulk email-extraction job, processed is at most totalLeads and
\* extracted + failed is at most processed in every state; when the job is
\* 'completed', processed equals totalLeads and the results hold one entry
\* per requested lead id, in the order requested; a lead that has an email
\* is not crawled and keeps that email.
C30_EmailJobCounters == [] EmailCounters /\ [][EmailKept]_vars

\* a completed job that passed over a lead with an email and crawled another
C30_Witness ==
    /\ ejob.status = "completed"
    /\ Len(ejob.ids) = 2
    /\ \E k \in 1..2 : ejob.results[k].error = "skipped"
    /\ ejob.extracted = 1
    /\ \E i \in 1..Len(store.leads) : store.leads[i].email = EmailBob2

====
